---- MODULE Spec2Model ----
(***************************************************************************)
(* A model of the script generator of Yofardev Toolbox                     *)
(* (src/core/llm_generator.py): the structural validator of generated      *)
(* scripts and the bounded generate -> validate -> retry loop of           *)
(* ScriptGenerator.generate_script.                                        *)
(*                                                                         *)
(* Texts are modelled by what the code observes of them.  A candidate      *)
(* script is a record of the facts the regular expressions, ast.parse,     *)
(* ast.walk and compile() extract from it; a collaborator response is a    *)
(* record of its wrapping (bare, fenced, in prose) and its body.           *)
(***************************************************************************)
EXTENDS Integers, Sequences, FiniteSets, TLC

\* ------------------------------------------------------------------------
\* Program constants
\* ------------------------------------------------------------------------

MAX_RETRIES == 3

required_vars == {"NAME", "DESCRIPTION", "INPUT_TYPES", "PARAMETERS"}

required_functions == {"main", "process_files"}

\* The ordered list of (regex, description) pairs of _check_anti_patterns;
\* entry i is the description of the i-th pattern.
anti_patterns ==
    << "hardcoded 'static/' directory path",
       "hardcoded 'static\\' directory path",
       "hardcoded 'output/' directory path",
       "hardcoded 'outputs/' directory path",
       "hardcoded 'temp/' directory path",
       "hardcoded 'tmp/' directory path",
       "hardcoded 'data/' directory path",
       "creating 'static' directory",
       "creating 'static' directory",
       "using 'static' Path",
       "Flask static_folder reference",
       "setting static_folder",
       "opening file with relative path (use absolute paths)",
       "user directory with 'static'" >>

DEFAULT_NAME == "Generated Script"

DEFAULT_DESCRIPTION == "No description"

\* ------------------------------------------------------------------------
\* Values
\* ------------------------------------------------------------------------

\* Minimum of a non-empty set of integers.
SetMin(S) == CHOOSE x \in S : \A y \in S : x <= y

\* A Python value handed to the validator.  For a str (ty = "str") the fields
\* are what the code can observe of the text:
\*   id          which text it is
\*   hits        indices of the anti_patterns whose regex matches the text
\*   parse       outcome of ast.parse: "ok", "SyntaxError" or "ValueError"
\*   compile_ok  whether compile(code, "<string>", "exec") succeeds
\*   top_vars    Name targets of ast.Assign statements of the module body
\*   inner_vars  Name targets of ast.Assign statements nested in a function
\*               or class body
\*   top_funcs   names of ast.FunctionDef nodes of the module body
\*   inner_funcs names of ast.FunctionDef nodes nested in another body
\*   name_lit    <<s>> when ast.walk ends with the str constant s assigned
\*               to NAME, <<>> when there is no such assignment
\*   desc_lit    the same for DESCRIPTION
\*   imports     top-level package names of the import statements, in
\*               ast.walk order
PyVal(t, i, h, p, c, tv, iv, tf, inf, nl, dl, im) ==
    [ty |-> t, id |-> i, hits |-> h, parse |-> p, compile_ok |-> c,
     top_vars |-> tv, inner_vars |-> iv, top_funcs |-> tf, inner_funcs |-> inf,
     name_lit |-> nl, desc_lit |-> dl, imports |-> im]

PyStr(i, h, p, c, tv, iv, tf, inf, nl, dl, im) ==
    PyVal("str", i, h, p, c, tv, iv, tf, inf, nl, dl, im)

\* The empty string "": nothing matches, ast.parse("") is an empty module.
EmptyStr == PyStr("", {}, "ok", TRUE, {}, {}, {}, {}, <<>>, <<>>, <<>>)

\* A text ast.parse rejects: no tree, nothing to walk.
Unparsable(i, h, p) == PyStr(i, h, p, FALSE, {}, {}, {}, {}, <<>>, <<>>, <<>>)

\* A value that is not a str (a JSON number, list, object, null, boolean).
NonStr(t) == PyVal(t, t, {}, "ok", TRUE, {}, {}, {}, {}, <<>>, <<>>, <<>>)

IsStr(v) == v.ty = "str"

\* ------------------------------------------------------------------------
\* Validation messages.  A message is modelled by its fixed prefix, the set
\* of names joined into it and the embedded detail text.
\* ------------------------------------------------------------------------

Msg(k, n, d) == [kind |-> k, names |-> n, detail |-> d]

\* The empty error message "".
NoError == Msg("", {}, "")

\* ------------------------------------------------------------------------
\* ScriptGenerator._check_anti_patterns
\* ------------------------------------------------------------------------

\* re.search(pattern, code) raises TypeError for a value that is neither str
\* nor bytes; otherwise the first matching pattern of the list decides.
\* Result: <<outcome, is_valid, error_message>>, outcome "return" or the
\* name of the exception raised.
CheckAntiPatterns(code) ==
    IF ~IsStr(code) THEN << "TypeError", FALSE, NoError >>
    ELSE IF code.hits # {}
         THEN << "return", FALSE,
                 Msg("Forbidden pattern detected", {}, anti_patterns[SetMin(code.hits)]) >>
         ELSE << "return", TRUE, NoError >>

\* ------------------------------------------------------------------------
\* ScriptGenerator._validate_script
\* ------------------------------------------------------------------------

\* ast.walk visits every node of the tree, so an Assign or a FunctionDef is
\* found at any depth.
found_vars(code) == code.top_vars \cup code.inner_vars

found_functions(code) == code.top_funcs \cup code.inner_funcs

missing_vars(code) == required_vars \ found_vars(code)

missing_funcs(code) == required_functions \ found_functions(code)

\* A variant that looks at the functions before the variables.
StructuralCheck_FunctionsFirst(code) ==
    IF code.parse = "SyntaxError" THEN << "return", FALSE, Msg("Syntax error", {}, "e") >>
    ELSE IF code.parse # "ok" THEN << "return", FALSE, Msg("Validation error", {}, "e") >>
    ELSE IF missing_funcs(code) # {}
         THEN << "return", FALSE, Msg("Missing required function(s)", missing_funcs(code), "") >>
    ELSE IF missing_vars(code) # {}
         THEN << "return", FALSE, Msg("Missing required variable(s)", missing_vars(code), "") >>
    ELSE IF ~code.compile_ok THEN << "return", FALSE, Msg("Syntax error", {}, "e") >>
    ELSE << "return", TRUE, NoError >>

\* A variant whose compile failure comes back without a message.
StructuralCheck_SilentCompile(code) ==
    IF code.parse = "SyntaxError" THEN << "return", FALSE, Msg("Syntax error", {}, "e") >>
    ELSE IF code.parse # "ok" THEN << "return", FALSE, Msg("Validation error", {}, "e") >>
    ELSE IF missing_vars(code) # {}
         THEN << "return", FALSE, Msg("Missing required variable(s)", missing_vars(code), "") >>
    ELSE IF missing_funcs(code) # {}
         THEN << "return", FALSE, Msg("Missing required function(s)", missing_funcs(code), "") >>
    ELSE IF ~code.compile_ok THEN << "return", FALSE, NoError >>
    ELSE << "return", TRUE, NoError >>

\* The structural part of _validate_script (the try block), for a str that
\* passed the anti-pattern check.
StructuralCheck(code) ==
    IF code.parse = "SyntaxError" THEN << "return", FALSE, Msg("Syntax error", {}, "e") >>
    ELSE IF code.parse # "ok" THEN << "return", FALSE, Msg("Validation error", {}, "e") >>
    ELSE IF missing_vars(code) # {}
         THEN << "return", FALSE, Msg("Missing required variable(s)", missing_vars(code), "") >>
    ELSE IF missing_funcs(code) # {}
         THEN << "return", FALSE, Msg("Missing required function(s)", missing_funcs(code), "") >>
    ELSE IF ~code.compile_ok THEN << "return", FALSE, Msg("Syntax error", {}, "e") >>
    ELSE << "return", TRUE, NoError >>

\* A variant that parses the text before it looks for forbidden patterns.
ValidateScript_StructureFirst(code) ==
    LET anti == CheckAntiPatterns(code)
    IN  IF anti[1] # "return" THEN anti
        ELSE IF ~StructuralCheck(code)[2] THEN StructuralCheck(code)
        ELSE anti

\* The anti-pattern check runs first, before the try block; its error is
\* returned as it is.
ValidateScript(code) ==
    LET anti == CheckAntiPatterns(code)
    IN  IF anti[1] # "return" THEN anti
        ELSE IF ~anti[2] THEN anti
        ELSE StructuralCheck(code)

\* ------------------------------------------------------------------------
\* ScriptGenerator._extract_metadata and detect_external_packages
\* ------------------------------------------------------------------------

\* (name, description): the str constants assigned to NAME and DESCRIPTION,
\* the defaults for whatever is not found and for a text that fails to parse.
\* An assignment statement "target = value" as the walk sees it: the kind
\* of the value node ("str" and "int" are ast.Constant, "call" and "name"
\* are not) and, for a constant, its value.
Assign(target, kind, value) == [target |-> target, kind |-> kind, value |-> value]

\* The walk overwrites name (description) at every assignment of a str
\* constant to NAME (DESCRIPTION): the last one stays.  <<>> when none.
RECURSIVE StrLiteralOf(_, _)
StrLiteralOf(assigns, var) ==
    IF assigns = <<>> THEN <<>>
    ELSE LET last == assigns[Len(assigns)]
         IN  IF last.target = var /\ last.kind = "str"
             THEN << last.value >>
             ELSE StrLiteralOf(SubSeq(assigns, 1, Len(assigns) - 1), var)

\* A variant that answers a failed parse with empty strings.
ExtractMetadata_EmptyOnFailure(code) ==
    IF ~IsStr(code) \/ code.parse # "ok" THEN << "", "" >>
    ELSE << IF code.name_lit # <<>> THEN code.name_lit[1] ELSE DEFAULT_NAME,
            IF code.desc_lit # <<>> THEN code.desc_lit[1] ELSE DEFAULT_DESCRIPTION >>

\* ast.parse raises TypeError for a value that is not text and SyntaxError
\* or ValueError for a text it rejects; except Exception answers with the
\* defaults.
ExtractMetadata(code) ==
    IF ~IsStr(code) \/ code.parse # "ok" THEN << DEFAULT_NAME, DEFAULT_DESCRIPTION >>
    ELSE << IF code.name_lit # <<>> THEN code.name_lit[1] ELSE DEFAULT_NAME,
            IF code.desc_lit # <<>> THEN code.desc_lit[1] ELSE DEFAULT_DESCRIPTION >>

\* The package names of the model in the order of Python's sorted() on str
\* (code point order: upper case before lower case).
PackageOrder ==
    << "PIL", "cv2", "numpy", "opencv-python", "os", "pymupdf", "requests", "sys",
       "utils" >>

STANDARD_LIB ==
    {"os", "sys", "re", "json", "csv", "datetime", "time", "pathlib",
     "argparse", "subprocess", "threading", "multiprocessing",
     "collections", "itertools", "functools", "operator", "typing",
     "math", "random", "string", "io", "hashlib", "base64",
     "urllib", "http", "socket", "ssl", "ftplib", "smtplib",
     "textwrap", "difflib", "pprint", "enum", "dataclasses",
     "typing_extensions", "contextlib", "warnings", "inspect",
     "importlib", "pkgutil", "sysconfig", "platform", "shutil",
     "tempfile", "zipfile", "tarfile", "gzip", "bz2", "lzma",
     "logging", "unittest", "pdb", "traceback", "queue"}

LIKELY_INSTALLED == {"PIL", "Pillow", "customtkinter", "tkinter"}

SeqRange(q) == {q[i] : i \in 1..Len(q)}

IsExternal(p) == p \notin STANDARD_LIB /\ p \notin LIKELY_INSTALLED

\* An import statement as the walk sees it: "import a.b" is Import(<<a, b>>),
\* "from a.b import x" is From(0, <<a, b>>), "from . import x" is
\* From(1, <<>>) (node.module is None), "from .a import x" is From(1, <<a>>).
Import(path) == [kind |-> "import", level |-> 0, path |-> path]

From(level, path) == [kind |-> "from", level |-> level, path |-> path]

\* name.split('.')[0] of every alias and of every from-module that is not
\* None, in the order of the statements; node.level is not looked at.
RECURSIVE ImportedNames(_)
ImportedNames(stmts) ==
    IF stmts = <<>> THEN <<>>
    ELSE (IF Head(stmts).path = <<>> THEN <<>> ELSE << Head(Head(stmts).path) >>)
            \o ImportedNames(Tail(stmts))

\* A variant that returns external_packages as collected.
DetectExternalPackages_AsCollected(code) ==
    IF ~IsStr(code) \/ code.parse # "ok" THEN <<>>
    ELSE SelectSeq(code.imports, IsExternal)

\* sorted(set(external_packages)); [] when ast.parse raises.
DetectExternalPackages(code) ==
    IF ~IsStr(code) \/ code.parse # "ok" THEN <<>>
    ELSE SelectSeq(PackageOrder,
                   LAMBDA p : p \in SeqRange(code.imports) /\ IsExternal(p))

\* ------------------------------------------------------------------------
\* Collaborator responses
\* ------------------------------------------------------------------------

\* A JSON value as json.loads returns it.  For an object (ty = "object"),
\* keys is the set of its keys and the other fields are the values of the
\* keys it has.
JVal(t, k, c, n, d, pk) ==
    [ty |-> t, keys |-> k, code |-> c, name |-> n, description |-> d, packages |-> pk]

JObject(k, c, n, d, pk) == JVal("object", k, c, n, d, pk)

\* A JSON value that is not an object: "list", "int", "string", ...
JOther(t) == JVal(t, {}, EmptyStr, "", "", <<>>)

AllKeys == {"code", "name", "description", "packages"}

\* The content returned by _make_api_request, by what the parsers observe:
\*   ty      "str", or "null" for a message whose content is null
\*   direct  <<v>> when json.loads(response.strip()) returns v, else <<>>
\*   fence   <<v>> when the first ``` block matched by the JSON pattern loads
\*           as v, else <<>>
\*   brace   <<v>> when the text from the first { to the last } loads as v
\*   block   <<t>> when the code pattern finds a ``` block, t its stripped
\*           content, else <<>>
\*   text    response.strip()
Resp(t, dr, fe, br, bl, tx) ==
    [ty |-> t, direct |-> dr, fence |-> fe, brace |-> br, block |-> bl, text |-> tx]

\* ------------------------------------------------------------------------
\* ScriptGenerator._parse_json_response, _extract_code_from_response
\* ------------------------------------------------------------------------

NoData == JOther("none")

\* <<outcome, data>>: the three strategies in order, APIError when all fail.
\* response.strip() on a content that is not a str raises AttributeError, which
\* the except json.JSONDecodeError clause does not catch.
ParseJsonResponse(response) ==
    IF response.ty # "str" THEN << "AttributeError", NoData >>
    ELSE IF response.direct # <<>> THEN << "return", response.direct[1] >>
    ELSE IF response.fence # <<>> THEN << "return", response.fence[1] >>
    ELSE IF response.brace # <<>> THEN << "return", response.brace[1] >>
    ELSE << "APIError", NoData >>

\* <<outcome, code>>: the first fenced block, else the whole response.
\* re.findall on a content that is not a str raises TypeError.
ExtractCodeFromResponse(response) ==
    IF response.ty # "str" THEN << "TypeError", EmptyStr >>
    ELSE IF response.block # <<>> THEN << "return", response.block[1] >>
    ELSE << "return", response.text >>

\* data.get(key, default) of a JSON object.
Get(data, key, default) == IF key \in data.keys THEN data[key] ELSE default

\* ------------------------------------------------------------------------
\* ScriptGenerator._make_api_request
\* ------------------------------------------------------------------------

\* What can go wrong inside the try block of _make_api_request: the failures
\* of requests.post and raise_for_status, of response.json() and of the
\* subscripts data["choices"][0]["message"]["content"].
ApiFailures ==
    {"Timeout", "ConnectionError", "HTTPError", "KeyError", "IndexError",
     "JSONDecodeError", "TypeError"}

\* The except clauses turn these into APIError; any other exception leaves
\* _make_api_request as it is.
CaughtByApiRequest ==
    {"Timeout", "ConnectionError", "HTTPError", "KeyError", "IndexError"}

MakeApiRequestRaises(failure) ==
    IF failure \in CaughtByApiRequest THEN "APIError" ELSE failure

\* ------------------------------------------------------------------------
\* ScriptGenerator.generate_script
\* ------------------------------------------------------------------------

\* A prompt is the template it was formatted from and the values filled in
\* (str.format inserts its arguments unchanged); a field that the template
\* does not have is <<>>.
Prompt(t, up, es, pc_, em) ==
    [template |-> t, user_prompt |-> up, existing_script |-> es,
     previous_code |-> pc_, error_message |-> em]

\* What generate_script hands to its caller: the returned dict, or the
\* message of the exception raised (error).
Result(c, n, d, pk, e) ==
    [code |-> c, name |-> n, description |-> d, packages |-> pk, error |-> e]

NoResult == Result(EmptyStr, "", "", <<>>, NoError)

\* One loop iteration as observed: the response received, the branch that
\* parsed it ("json" or "plain"), whether the JSON parse was tried, what was
\* parsed, and what validation said.
Attempt(a, r, b, tj, c, n, d, pk, v, e) ==
    [attempt |-> a, response |-> r, branch |-> b, tried_json |-> tj,
     code |-> c, name |-> n, description |-> d, packages |-> pk,
     is_valid |-> v, error_msg |-> e]

\* A request as sent: the attempt that sent it, the prompt of the user
\* message, and how many notifications the call had made when it went out.
Request(a, p, nb) == [attempt |-> a, prompt |-> p, notified_before |-> nb]

\* A ScriptGenerator instance together with the frame of the generate_script
\* call running on it.  requests, notified, log and api_failure record what
\* the call did and what the collaborator did to it.
\*   pc  "idle" (no call yet), "drafting" (top of the loop body),
\*       "awaiting" (inside _make_api_request), "done" (returned or raised)
NewGenerator ==
    [pc |-> "idle",
     last_generated_code |-> EmptyStr,
     last_validation_error |-> NoError,
     user_prompt |-> "", existing_script |-> <<>>,
     progress_callback |-> FALSE, mode |-> "create", attempt |-> 0,
     requests |-> <<>>, notified |-> <<>>, log |-> <<>>, api_failure |-> <<>>,
     outcome |-> "none", result |-> NoResult]

\* Truth value of the existing_script argument: None and "" are false.
Truthy(es) == es # <<>> /\ es[1] # EmptyStr

\* Entry of generate_script, up to the first iteration of the loop.
Call(g, up, es, cb) ==
    [g EXCEPT !.pc = "drafting", !.user_prompt = up, !.existing_script = es,
              !.progress_callback = cb,
              !.mode = IF Truthy(es) THEN "edit" ELSE "create",
              !.attempt = 1,
              !.requests = <<>>, !.notified = <<>>, !.log = <<>>,
              !.api_failure = <<>>,
              !.outcome = "none", !.result = NoResult]

\* A variant that never uses the retry template.
BuildPrompt_NoFeedback(g) ==
    IF g.mode = "edit"
    THEN Prompt("EDIT_TEMPLATE", g.user_prompt, g.existing_script, <<>>, <<>>)
    ELSE Prompt("CREATE_TEMPLATE", g.user_prompt, <<>>, <<>>, <<>>)

BuildPrompt(g) ==
    IF g.attempt = 1
    THEN IF g.mode = "edit"
         THEN Prompt("EDIT_TEMPLATE", g.user_prompt, g.existing_script, <<>>, <<>>)
         ELSE Prompt("CREATE_TEMPLATE", g.user_prompt, <<>>, <<>>, <<>>)
    ELSE Prompt("RETRY_TEMPLATE", g.user_prompt, <<>>,
                << g.last_generated_code >>, << g.last_validation_error >>)

\* A variant in which only a call with a notifier builds the retry prompt.
Draft_CallbackGatesRetry(g) ==
    LET told == IF g.progress_callback
                THEN Append(g.notified, << g.attempt, MAX_RETRIES >>)
                ELSE g.notified
        prompt == IF g.progress_callback THEN BuildPrompt(g)
                  ELSE BuildPrompt([g EXCEPT !.attempt = 1])
    IN  [g EXCEPT !.pc = "awaiting",
                  !.notified = told,
                  !.requests = Append(@, Request(g.attempt, prompt, Len(told)))]

\* Top of the loop body: notify, build the prompt, send the request.
\* The notifier is a function that returns; the call does not use its result.
Draft(g) ==
    LET told == IF g.progress_callback
                THEN Append(g.notified, << g.attempt, MAX_RETRIES >>)
                ELSE g.notified
    IN  [g EXCEPT !.pc = "awaiting",
                  !.notified = told,
                  !.requests = Append(@, Request(g.attempt, BuildPrompt(g), Len(told)))]

\* generate_script ends with an exception.
Raise(g, exc, msg) ==
    [g EXCEPT !.pc = "done", !.outcome = exc,
              !.result = Result(EmptyStr, "", "", <<>>, msg)]

\* _make_api_request raised: APIError is re-raised, anything else propagates.
OnApiFailure(g, failure) ==
    Raise([g EXCEPT !.api_failure = << failure >>],
          MakeApiRequestRaises(failure), Msg(MakeApiRequestRaises(failure), {}, failure))

\* A variant that parses JSON in edit mode too.
TriesJson_Always(g) == TRUE

\* Whether the response goes through _parse_json_response first.
TriesJson(g) == g.mode = "create"

\* The parse step of one iteration:
\* <<outcome, branch, code, name, description, packages>>.
PlainParse(response) ==
    LET ex == ExtractCodeFromResponse(response)
    IN  IF ex[1] # "return" THEN << ex[1], "plain", EmptyStr, "", "", <<>> >>
        ELSE << "return", "plain", ex[2],
                ExtractMetadata(ex[2])[1], ExtractMetadata(ex[2])[2],
                DetectExternalPackages(ex[2]) >>

\* A variant whose JSON branch derives the packages from the imports.
ParseResponse_DerivedPackages(g, response) ==
    IF TriesJson(g)
    THEN LET pj == ParseJsonResponse(response)
         IN  IF pj[1] = "APIError" THEN PlainParse(response)
             ELSE IF pj[1] # "return" THEN << pj[1], "json", EmptyStr, "", "", <<>> >>
             ELSE IF pj[2].ty # "object"
                  THEN << "AttributeError", "json", EmptyStr, "", "", <<>> >>
             ELSE << "return", "json",
                     Get(pj[2], "code", EmptyStr),
                     Get(pj[2], "name", DEFAULT_NAME),
                     Get(pj[2], "description", DEFAULT_DESCRIPTION),
                     IF IsStr(Get(pj[2], "code", EmptyStr))
                     THEN DetectExternalPackages(Get(pj[2], "code", EmptyStr))
                     ELSE <<>> >>
    ELSE PlainParse(response)

ParseResponse(g, response) ==
    IF TriesJson(g)
    THEN LET pj == ParseJsonResponse(response)
         IN  IF pj[1] = "APIError" THEN PlainParse(response)
             ELSE IF pj[1] # "return" THEN << pj[1], "json", EmptyStr, "", "", <<>> >>
             ELSE IF pj[2].ty # "object"
                  THEN << "AttributeError", "json", EmptyStr, "", "", <<>> >>
             ELSE << "return", "json",
                     Get(pj[2], "code", EmptyStr),
                     Get(pj[2], "name", DEFAULT_NAME),
                     Get(pj[2], "description", DEFAULT_DESCRIPTION),
                     Get(pj[2], "packages", <<>>) >>
    ELSE PlainParse(response)

\* A variant that goes on to the next attempt after a valid candidate and
\* returns only on the last one.
AfterValid_KeepsLooping(g, code, name, description, packages) ==
    IF g.attempt < MAX_RETRIES
    THEN [g EXCEPT !.pc = "drafting", !.attempt = @ + 1]
    ELSE [g EXCEPT !.pc = "done", !.outcome = "return",
                   !.result = Result(code, name, description, packages, NoError)]

\* is_valid: the call returns the dict at once.
AfterValid(g, code, name, description, packages) ==
    [g EXCEPT !.pc = "done", !.outcome = "return",
              !.result = Result(code, name, description, packages, NoError)]

\* A variant that gives up one attempt early.
AfterInvalid_GivesUpEarly(g, error_msg) ==
    IF g.attempt >= MAX_RETRIES - 1
    THEN [g EXCEPT !.pc = "done", !.outcome = "ValidationError",
                   !.result = Result(EmptyStr, "", "", <<>>, error_msg)]
    ELSE [g EXCEPT !.pc = "drafting", !.attempt = @ + 1]

\* A variant whose loop runs one attempt more.
AfterInvalid_OneMore(g, error_msg) ==
    IF g.attempt > MAX_RETRIES
    THEN [g EXCEPT !.pc = "done", !.outcome = "ValidationError",
                   !.result = Result(EmptyStr, "", "", <<>>, error_msg)]
    ELSE [g EXCEPT !.pc = "drafting", !.attempt = @ + 1]

\* What the loop does after an invalid candidate: raise on the last attempt,
\* else the next iteration of range(1, MAX_RETRIES + 1).
AfterInvalid(g, error_msg) ==
    IF g.attempt >= MAX_RETRIES
    THEN Raise(g, "ValidationError", error_msg)
    ELSE IF g.attempt + 1 <= MAX_RETRIES
         THEN [g EXCEPT !.pc = "drafting", !.attempt = @ + 1]
         ELSE [g EXCEPT !.pc = "done", !.outcome = "return_none"]

\* A variant that does not store the validation error.
OnResponse_ForgetsError(g, response) ==
    LET pr == ParseResponse(g, response)
        g1 == [g EXCEPT !.last_generated_code = pr[3]]
        vr == ValidateScript(pr[3])
        entry == Attempt(g.attempt, response, pr[2], TriesJson(g),
                         pr[3], pr[4], pr[5], pr[6], vr[2], vr[3])
        g2 == [g1 EXCEPT !.log = Append(@, entry)]
    IN  IF pr[1] # "return" THEN Raise(g, pr[1], Msg(pr[1], {}, ""))
        ELSE IF vr[1] # "return" THEN Raise(g1, vr[1], Msg(vr[1], {}, ""))
        ELSE IF vr[2]
             THEN AfterValid(g2, pr[3], pr[4], pr[5], pr[6])
             ELSE AfterInvalid(g2, vr[3])

\* _make_api_request returned: parse, store, validate, then return, raise or
\* go round the loop.
OnResponse(g, response) ==
    LET pr == ParseResponse(g, response)
        g1 == [g EXCEPT !.last_generated_code = pr[3]]
        vr == ValidateScript(pr[3])
        entry == Attempt(g.attempt, response, pr[2], TriesJson(g),
                         pr[3], pr[4], pr[5], pr[6], vr[2], vr[3])
        g2 == [g1 EXCEPT !.log = Append(@, entry)]
    IN  IF pr[1] # "return" THEN Raise(g, pr[1], Msg(pr[1], {}, ""))
        ELSE IF vr[1] # "return" THEN Raise(g1, vr[1], Msg(vr[1], {}, ""))
        ELSE IF vr[2]
             THEN AfterValid(g2, pr[3], pr[4], pr[5], pr[6])
             ELSE AfterInvalid([g2 EXCEPT !.last_validation_error = vr[3]], vr[3])

\* ------------------------------------------------------------------------
\* Bounds and the inputs of the model
\* ------------------------------------------------------------------------

\* Number of generate_script calls made one after another on one instance.
MaxCalls == 2

\* Candidate scripts the collaborator answers with.
GoodScript ==
    PyStr("good", {}, "ok", TRUE, required_vars, {}, required_functions, {},
          << "Foo" >>, << "Bar" >>, << "sys", "requests", "cv2", "PIL", "cv2" >>)

\* Misses the variable PARAMETERS and the function main.
IncompleteScript ==
    PyStr("incomplete", {}, "ok", TRUE, required_vars \ {"PARAMETERS"}, {},
          {"process_files"}, {}, << "Foo" >>, <<>>, << "numpy" >>)

\* Misses the function process_files only.
NoProcessFiles ==
    PyStr("no_process_files", {}, "ok", TRUE, required_vars, {},
          {"main"}, {}, <<>>, << "Bar" >>, <<>>)

\* Complete, but contains "output/" and open("out/...").
ForbiddenScript ==
    PyStr("forbidden", {3, 13}, "ok", TRUE, required_vars, {}, required_functions, {},
          << "Foo" >>, << "Bar" >>, << "os" >>)

BrokenScript == Unparsable("broken", {}, "SyntaxError")

\* The text of a JSON document read as Python source: an expression
\* statement, no assignment and no def.
JsonText == PyStr("json_text", {}, "ok", TRUE, {}, {}, {}, {}, <<>>, <<>>, <<>>)

\* The text of a ``` block that starts with the label json.
LabelledJsonText == Unparsable("json_block", {}, "SyntaxError")

\* Prose around a JSON object.
ProseText == Unparsable("prose", {}, "SyntaxError")

Scripts == {GoodScript, IncompleteScript, NoProcessFiles, ForbiddenScript, BrokenScript}

\* {"name": ..., "description": ..., "packages": [...], "code": ...}
FullObject(c) == JObject(AllKeys, c, "Json Name", "Json description", << "opencv-python", "numpy" >>)

\* Response shapes.
BareJson(v) == Resp("str", << v >>, <<>>, <<>>, <<>>, JsonText)

FencedJson(v) == Resp("str", <<>>, << v >>, << v >>, << LabelledJsonText >>, ProseText)

ProseJson(v) == Resp("str", <<>>, <<>>, << v >>, <<>>, ProseText)

FencedCode(c) == Resp("str", <<>>, <<>>, <<>>, << c >>, ProseText)

RawCode(c) == Resp("str", <<>>, <<>>, <<>>, <<>>, c)

\* Plain code whose text from the first { to the last } is a JSON object,
\* such as a single dict literal in PARAMETERS.
RawCodeWithDict(c) ==
    Resp("str", <<>>, <<>>, << JObject({"name"}, EmptyStr, "example_param", "", <<>>) >>, <<>>, c)

\* A message whose content is null.
NullContent == Resp("null", <<>>, <<>>, <<>>, <<>>, EmptyStr)

Responses ==
    {BareJson(FullObject(c)) : c \in Scripts}
    \cup {RawCode(c) : c \in Scripts}
    \cup {FencedCode(GoodScript), FencedCode(IncompleteScript),
          FencedJson(FullObject(GoodScript)),
          ProseJson(FullObject(NoProcessFiles)),
          BareJson(JObject({"code"}, GoodScript, "", "", <<>>)),
          BareJson(JObject({"name", "packages"}, EmptyStr, "Json Name", "", << "pymupdf" >>)),
          BareJson(FullObject(NonStr("int"))),
          BareJson(JOther("list")),
          RawCodeWithDict(GoodScript),
          NullContent}

UserPrompts == {"resize images", "convert pdf"}

\* The existing_script argument: None, "" or a script to edit.
ExistingScripts == {<<>>, << EmptyStr >>, << GoodScript >>}

\* ------------------------------------------------------------------------
\* State
\* ------------------------------------------------------------------------

VARIABLES
    gen,        \* the ScriptGenerator instance and its generate_script call
    twin,       \* the same calls with progress_callback = None, given the
                \* same collaborator outcomes
    calls,      \* number of generate_script calls started on the instance
    val_pc,     \* validator runs: "call" before, "done" after
    val_code,   \* the candidate handed to _validate_script
    val_result, \* what _validate_script gave: <<outcome, is_valid, error_message>>
    val_text,   \* the quoted literals and calls written in the candidate
    anti_pc,    \* _check_anti_patterns runs: "call" before, "done" after
    anti_result,\* what _check_anti_patterns gave, same shape as val_result
    an_assigns, \* the assignment statements of the text handed to the analysers
    an_imports, \* its import statements
    an_code,    \* the text handed to _extract_metadata / detect_external_packages
    meta_results, \* what the runs of _extract_metadata returned, in order
    pkg_results,\* what the runs of detect_external_packages returned, in order
    panel,      \* the generator panel on screen: its number and its Generate button
    threads,    \* the background threads started by GeneratorPanel.generate
    instances,  \* the ScriptGenerator objects built so far, by address: their
                \* two fields
    sm_pc,      \* _extract_metadata_ast runs: "call" before, "done" after
    sm_script,  \* the script file it reads
    sm_trace,   \* what the run did with the PARAMETERS node
    sm_result,  \* what it returned
    current_process, \* ScriptExecutor.current_process: 0 for None, else a process
    procs,      \* the subprocesses started so far: running, exited or terminated
    runners,    \* the threads running _run_process
    finished,   \* the calls of finished_callback so far: <<runner, returncode>>
    probe,      \* the last call of is_running() or stop() and what it returned
    cfg_file,   \* the configuration file llm_config.json
    cfg_last,   \* the last call made on the configuration and what it returned
    cfg_calls,  \* number of calls made on the configuration
    seq_gen,    \* a ScriptGenerator used for one generate_script call after another
    seq_stale,  \* what its two fields held when the call in progress began
    seq_calls,  \* number of generate_script calls started on it
    vm_disk,    \* the script file, versions.json and the backup files of one script
    vm_issued,  \* the version numbers create_backup has returned, in order
    vm_last,    \* the last call on the ScriptVersionManager and its result
    rp_callbacks, \* the callbacks of a ScriptExecutor: which may raise, and install_callback
    rp_pc,      \* where its _run_process thread is
    rp_child,   \* the subprocess: its state, the lines it has still to write, its exit code
    rp_stdout,  \* the lines in the stdout pipe
    rp_stderr,  \* the lines in the stderr pipe
    rp_passed,  \* number of subprocess lines passed to output_callback
    rp_missing, \* whether stderr_output holds a line naming a missing module
    rp_finished \* the calls of finished_callback

valVars == << val_pc, val_code, val_result, val_text, anti_pc, anti_result >>

genVars == << gen, twin, calls >>

anVars == << an_assigns, an_imports, an_code, meta_results, pkg_results >>

guiVars == << panel, threads, instances >>

smVars == << sm_pc, sm_script, sm_trace, sm_result >>

exVars == << current_process, procs, runners, finished, probe >>

cfgVars == << cfg_file, cfg_last, cfg_calls >>

seqVars == << seq_gen, seq_stale, seq_calls >>

vmVars == << vm_disk, vm_issued, vm_last >>

rpVars == << rp_callbacks, rp_pc, rp_child, rp_stdout, rp_stderr, rp_passed,
            rp_missing, rp_finished >>

vars == << genVars, valVars, anVars, guiVars, smVars, exVars, cfgVars, seqVars, vmVars, rpVars >>

NoValResult == << "none", FALSE, NoError >>

\* No generate_script call is in progress.
GeneratorIdle ==
    /\ gen = NewGenerator
    /\ twin = NewGenerator
    /\ calls = 0

\* The validator is not being exercised on its own.
ValidatorOff ==
    /\ val_pc = "off"
    /\ val_code = EmptyStr
    /\ val_result = NoValResult
    /\ val_text = {}
    /\ anti_pc = "off"
    /\ anti_result = NoValResult

\* No generator panel has been opened.
GuiOff ==
    /\ panel = [id |-> 0, button |-> "none"]
    /\ threads = <<>>
    /\ instances = <<>>

\* A script file: whether ast.parse accepts it and the value node of its
\* PARAMETERS assignment, a node kind ("absent" without assignment) and,
\* for a list or tuple display, the kinds of its elements.
Script(parse, kind, elts) == [parse |-> parse, kind |-> kind, elts |-> elts]

\* What a run did with the node: whether it was handed to eval, and the
\* elements whose evaluation ran code of the script (calls, attribute
\* lookups).
Trace(evaluated, ran) == [evaluated |-> evaluated, ran |-> ran]

\* The returned dict (None when returned is FALSE), by its "parameters".
Metadata(returned, parameters) == [returned |-> returned, parameters |-> parameters]

\* ScriptManager is not being exercised.
ScriptManagerOff ==
    /\ sm_pc = "off"
    /\ sm_script = Script("ok", "absent", <<>>)
    /\ sm_trace = Trace(FALSE, {})
    /\ sm_result = Metadata(FALSE, <<>>)

\* A call of is_running() or stop(): what it returned, whether a
\* subprocess was running when it was made, and whether by then every
\* subprocess started had exited on its own with finished_callback called.
Probe(op, result, live, settled) ==
    [op |-> op, result |-> result, live |-> live, settled |-> settled]

\* ScriptExecutor.__init__: no process, nothing started.
NewExecutor ==
    /\ current_process = 0
    /\ procs = <<>>
    /\ runners = <<>>
    /\ finished = <<>>
    /\ probe = Probe("none", FALSE, FALSE, FALSE)

\* The file llm_config.json: "absent", "ok" with its two keys, or
\* "corrupt" (not JSON).  An id is the sequence of the parts that "-" joins:
\* << "foo", "1" >> is "foo-1", << "" >> is "", and <<>> stands for None.
ConfigFile(state, llms, current_llm_id) ==
    [state |-> state, llms |-> llms, current_llm_id |-> current_llm_id]

NoConfigFile == ConfigFile("absent", <<>>, <<>>)

\* A call on the configuration: the function, its id argument and what it
\* returned.
ConfigCall(op, id, ok) == [op |-> op, id |-> id, ok |-> ok]

\* No configuration file has been written.
ConfigFresh ==
    /\ cfg_file = NoConfigFile
    /\ cfg_last = ConfigCall("none", <<>>, FALSE)
    /\ cfg_calls = 0

\* The two fields of a ScriptGenerator.
Fields(g) ==
    [last_generated_code |-> g.last_generated_code,
     last_validation_error |-> g.last_validation_error]

\* The reused ScriptGenerator has just been built.
ReusedNew ==
    /\ seq_gen = NewGenerator
    /\ seq_stale = Fields(NewGenerator)
    /\ seq_calls = 0

\* The files of one script: the script itself (<<>> when it does not
\* exist), the "versions" of versions.json (version number -> backup_file)
\* and the backup files of its versions directory (name -> content).
Disk(script, metadata, files) ==
    [script |-> script, metadata |-> metadata, files |-> files]

\* A call on the ScriptVersionManager: op, whether it succeeded, the
\* version number create_backup returned (<<>> for None), the script before
\* the call and the content of the version asked for.
VmCall(op, ok, backup, pre, want) ==
    [op |-> op, ok |-> ok, backup |-> backup, pre |-> pre, want |-> want]

\* _load_metadata when there is no versions.json.
NoVersions == [n \in {} |-> <<>>]

\* A script that has no version yet.
VersionsFresh ==
    /\ vm_disk = Disk(<< "a" >>, NoVersions, NoVersions)
    /\ vm_issued = <<>>
    /\ vm_last = VmCall("none", TRUE, <<>>, <<>>, <<>>)

\* The callbacks a ScriptExecutor is built with: the ones that may raise
\* when called, and whether install_callback is given.
Callbacks(raising, install) == [raising |-> raising, install |-> install]

\* A subprocess: "none" before Popen, then "running", then "exited"; the
\* lines it has still to write and the code it exits with.
Child(state, todo, returncode) ==
    [state |-> state, todo |-> todo, returncode |-> returncode]

\* What does not depend on the callbacks in a ScriptExecutor on which
\* execute has not been called.
NotExecuted ==
    /\ rp_pc = "idle"
    /\ rp_child = Child("none", <<>>, 0)
    /\ rp_stdout = <<>>
    /\ rp_stderr = <<>>
    /\ rp_passed = 0
    /\ rp_missing = FALSE
    /\ rp_finished = <<>>

\* A ScriptExecutor with callbacks that return, before execute.
PlainExecutor ==
    /\ rp_callbacks = Callbacks({}, FALSE)
    /\ NotExecuted

\* The analysers are not being exercised on their own.
AnalysersOff ==
    /\ an_assigns = <<>>
    /\ an_imports = <<>>
    /\ an_code = EmptyStr
    /\ meta_results = <<>>
    /\ pkg_results = <<>>

\* ------------------------------------------------------------------------
\* The generation loop
\* ------------------------------------------------------------------------

Init ==
    /\ GeneratorIdle
    /\ ValidatorOff
    /\ AnalysersOff
    /\ GuiOff
    /\ ScriptManagerOff
    /\ NewExecutor
    /\ ConfigFresh
    /\ ReusedNew
    /\ VersionsFresh
    /\ PlainExecutor

\* A caller invokes generate_script(user_prompt, existing_script, progress_callback).
Start ==
    /\ gen.pc \in {"idle", "done"}
    /\ calls < MaxCalls
    /\ \E up \in UserPrompts, es \in ExistingScripts, cb \in BOOLEAN :
          /\ gen' = Call(gen, up, es, cb)
          /\ twin' = Call(twin, up, es, FALSE)
    /\ calls' = calls + 1
    /\ UNCHANGED << valVars, anVars, guiVars, smVars, exVars, cfgVars, seqVars, vmVars, rpVars >>

\* The loop body up to the call of _make_api_request.
SendRequest ==
    /\ gen.pc = "drafting"
    /\ gen' = Draft(gen)
    /\ twin' = IF twin.pc = "drafting" THEN Draft(twin) ELSE twin
    /\ UNCHANGED << calls, valVars, anVars, guiVars, smVars, exVars, cfgVars, seqVars, vmVars, rpVars >>

\* _make_api_request returns the content of the collaborator's message.
ApiReturn ==
    /\ gen.pc = "awaiting"
    /\ \E r \in Responses :
          /\ gen' = OnResponse(gen, r)
          /\ twin' = IF twin.pc = "awaiting" THEN OnResponse(twin, r) ELSE twin
    /\ UNCHANGED << calls, valVars, anVars, guiVars, smVars, exVars, cfgVars, seqVars, vmVars, rpVars >>

\* The collaborator call fails.
ApiRaise ==
    /\ gen.pc = "awaiting"
    /\ \E f \in ApiFailures :
          /\ gen' = OnApiFailure(gen, f)
          /\ twin' = IF twin.pc = "awaiting" THEN OnApiFailure(twin, f) ELSE twin
    /\ UNCHANGED << calls, valVars, anVars, guiVars, smVars, exVars, cfgVars, seqVars, vmVars, rpVars >>

Next == Start \/ SendRequest \/ ApiReturn \/ ApiRaise

Spec == Init /\ [][Next]_vars

\* ------------------------------------------------------------------------
\* The validator on its own
\* ------------------------------------------------------------------------

\* What the patterns of _check_anti_patterns can see of a candidate: its
\* quoted path literals, each possibly the first argument of a call, and
\* its uses of static_folder.  A literal is quote, dir, sep, rest, quote;
\* letter case is left out since every pattern is matched with IGNORECASE.
Literal(call, dir, sep, rest) ==
    [kind |-> "literal", call |-> call, dir |-> dir, sep |-> sep, rest |-> rest]

Usage(kind) ==
    [kind |-> kind, call |-> "", dir |-> "", sep |-> "", rest |-> ""]

\* The directory names the patterns mention, and one they do not.
DirNames == {"static", "output", "outputs", "temp", "tmp", "data", "results"}

Fragments ==
    {Literal(c, d, s, r) :
        c \in {"", "mkdir", "makedirs", "Path", "open"}, d \in DirNames,
        s \in {"/", "\\"}, r \in {"", "foo"}}
    \cup {Usage("app.static_folder"), Usage("static_folder="), Usage("~/static")}

\* r"['\"]<dir>/['\"]": the literal is exactly the directory and a slash.
QuotedDir(f, dir) ==
    f.kind = "literal" /\ f.dir = dir /\ f.sep = "/" /\ f.rest = ""

\* r"<call>\(['\"]static": a literal starting with static opens the call.
CallOnStatic(f, call) ==
    f.kind = "literal" /\ f.call = call /\ f.dir = "static"

\* Whether the i-th pattern of anti_patterns matches inside fragment f.
PatternMatches(i, f) ==
    CASE i = 1 -> QuotedDir(f, "static")
      [] i = 2 -> f.kind = "literal" /\ f.dir = "static" /\ f.sep = "\\" /\ f.rest = ""
      [] i = 3 -> QuotedDir(f, "output")
      [] i = 4 -> QuotedDir(f, "outputs")
      [] i = 5 -> QuotedDir(f, "temp")
      [] i = 6 -> QuotedDir(f, "tmp")
      [] i = 7 -> QuotedDir(f, "data")
      [] i = 8 -> CallOnStatic(f, "mkdir")
      [] i = 9 -> CallOnStatic(f, "makedirs")
      [] i = 10 -> CallOnStatic(f, "Path")
      [] i = 11 -> f.kind = "app.static_folder"
      [] i = 12 -> f.kind = "static_folder="
      [] i = 13 -> f.kind = "literal" /\ f.call = "open" /\ f.sep = "/"
      [] i = 14 -> f.kind = "~/static"
      [] OTHER -> FALSE

\* The patterns re.search finds somewhere in a text with these fragments.
HitsOf(text) ==
    {i \in 1..Len(anti_patterns) : \E f \in text : PatternMatches(i, f)}

\* The fragment sets of the candidates: none, each fragment alone, and
\* pairs that make two patterns match.
PairPool ==
    {Literal("", "data", "/", ""), Literal("open", "results", "/", "foo"),
     Literal("Path", "static", "/", ""), Literal("makedirs", "output", "/", "foo")}

Texts ==
    {{}} \cup {{f} : f \in Fragments} \cup {{f, g} : f \in PairPool, g \in PairPool}

\* Candidates handed to _validate_script whose text matches the patterns
\* h: every combination of bound required names, and texts that do not
\* parse.
Candidates(h) ==
    {PyStr("candidate", h, "ok", c, tv, iv, tf, inf, <<>>, <<>>, <<>>) :
        c \in BOOLEAN,
        tv \in {required_vars, required_vars \ {"PARAMETERS"}, {"NAME"}, {}},
        iv \in {{}, {"PARAMETERS"}},
        tf \in SUBSET required_functions, inf \in {{}, {"main"}}}
    \cup {Unparsable("candidate", h, p) : p \in {"SyntaxError", "ValueError"}}

\* Values of the "code" field of a JSON response that are not text.
NonTextCandidates == {NonStr("int"), NonStr("null"), NonStr("list")}

ValidateInputs ==
    UNION {Candidates(HitsOf(t)) : t \in Texts} \cup NonTextCandidates

InitValidate ==
    /\ GeneratorIdle
    /\ val_pc = "call"
    /\ val_text \in Texts
    /\ val_code \in Candidates(HitsOf(val_text))
                      \cup (IF val_text = {} THEN NonTextCandidates ELSE {})
    /\ val_result = NoValResult
    /\ anti_pc = "call"
    /\ anti_result = NoValResult
    /\ AnalysersOff
    /\ GuiOff
    /\ ScriptManagerOff
    /\ NewExecutor
    /\ ConfigFresh
    /\ ReusedNew
    /\ VersionsFresh
    /\ PlainExecutor

Validate ==
    /\ val_pc = "call"
    /\ val_result' = ValidateScript(val_code)
    /\ val_pc' = "done"
    /\ UNCHANGED << val_code, val_text, anti_pc, anti_result, genVars, anVars, guiVars, smVars, exVars, cfgVars, seqVars, vmVars, rpVars >>

CheckAnti ==
    /\ anti_pc = "call"
    /\ anti_result' = CheckAntiPatterns(val_code)
    /\ anti_pc' = "done"
    /\ UNCHANGED << val_code, val_text, val_pc, val_result, genVars, anVars, guiVars, smVars, exVars, cfgVars, seqVars, vmVars, rpVars >>

NextValidate == Validate \/ CheckAnti

SpecValidate == InitValidate /\ [][NextValidate]_vars

\* ------------------------------------------------------------------------
\* _extract_metadata and detect_external_packages on their own
\* ------------------------------------------------------------------------

MaxAssigns == 2

MaxImports == 3

MaxRuns == 2

SeqsUpTo(S, n) == UNION {[1..k -> S] : k \in 0..n}

AssignStmts ==
    {Assign(t, "str", v) : t \in {"NAME", "DESCRIPTION", "VERSION"}, v \in {"Resizer", "Resizes images"}}
    \cup {Assign(t, k, "") : t \in {"NAME", "DESCRIPTION", "VERSION"}, k \in {"int", "call", "name"}}

ImportStmts ==
    {Import(<< "cv2" >>), Import(<< "cv2", "aruco" >>), Import(<< "os" >>),
     Import(<< "os", "path" >>), Import(<< "requests" >>), Import(<< "sys" >>),
     From(0, << "numpy", "linalg" >>), From(0, << "PIL" >>),
     From(1, <<>>), From(1, << "utils" >>)}

\* The text with these statements, as the analysers observe it.
SourceText(assigns, imports, parse) ==
    IF parse # "ok" THEN Unparsable("candidate", {}, parse)
    ELSE PyStr("candidate", {}, "ok", TRUE,
               {assigns[i].target : i \in 1..Len(assigns)}, {}, {}, {},
               StrLiteralOf(assigns, "NAME"), StrLiteralOf(assigns, "DESCRIPTION"),
               ImportedNames(imports))

InitAnalyse ==
    /\ GeneratorIdle
    /\ ValidatorOff
    /\ GuiOff
    /\ ScriptManagerOff
    /\ NewExecutor
    /\ ConfigFresh
    /\ ReusedNew
    /\ VersionsFresh
    /\ PlainExecutor
    /\ \/ an_assigns \in SeqsUpTo(AssignStmts, MaxAssigns) /\ an_imports = <<>>
       \/ an_assigns = <<>> /\ an_imports \in SeqsUpTo(ImportStmts, MaxImports)
    /\ an_code \in {SourceText(an_assigns, an_imports, p) :
                        p \in {"ok", "SyntaxError", "ValueError"}}
                    \cup (IF an_assigns = <<>> /\ an_imports = <<>>
                          THEN NonTextCandidates ELSE {})
    /\ meta_results = <<>>
    /\ pkg_results = <<>>

ExtractMeta ==
    /\ Len(meta_results) < MaxRuns
    /\ meta_results' = Append(meta_results, ExtractMetadata(an_code))
    /\ UNCHANGED << an_assigns, an_imports, an_code, pkg_results, genVars, valVars, guiVars, smVars, exVars, cfgVars, seqVars, vmVars, rpVars >>

DetectPackages ==
    /\ Len(pkg_results) < MaxRuns
    /\ pkg_results' = Append(pkg_results, DetectExternalPackages(an_code))
    /\ UNCHANGED << an_assigns, an_imports, an_code, meta_results, genVars, valVars, guiVars, smVars, exVars, cfgVars, seqVars, vmVars, rpVars >>

NextAnalyse == ExtractMeta \/ DetectPackages

SpecAnalyse == InitAnalyse /\ [][NextAnalyse]_vars

\* ------------------------------------------------------------------------
\* Generations started from the generator panel
\* ------------------------------------------------------------------------

MaxThreads == 2

MaxPanels == 2

\* What the collaborator answers in this part: a valid script, two
\* different invalid ones, a failure.
GuiResponses ==
    {BareJson(FullObject(GoodScript)), BareJson(FullObject(IncompleteScript)),
     RawCode(ForbiddenScript)}

GuiFailures == {"Timeout"}

\* What the user typed in the prompt box.
GuiPrompts == {"resize images"}

\* ScriptGenerator.__init__: the two fields a new object starts with.
NewInstance ==
    [last_generated_code |-> NewGenerator.last_generated_code,
     last_validation_error |-> NewGenerator.last_validation_error]

\* A thread running _run_generation: the panel that started it, the
\* ScriptGenerator it built (0 before) and the frame of its
\* generate_script call.
NewThread(panel_id, prompt) ==
    [panel |-> panel_id, generator |-> 0,
     frame |-> [NewGenerator EXCEPT !.user_prompt = prompt]]

\* The address of the object thread t allocates: one not in use; the
\* number of the thread serves.
FreshAddress(t) == t

\* A variant in which every thread works on the object built first.
InstanceOf_Shared(t) == CHOOSE a \in DOMAIN instances : TRUE

\* The object the local variable generator of thread t refers to.
InstanceOf(t) == threads[t].generator

\* The frame of thread t reading self.last_generated_code and
\* self.last_validation_error from its object.
Bound(t) ==
    LET self == instances[InstanceOf(t)]
    IN  [threads[t].frame EXCEPT
            !.last_generated_code = self.last_generated_code,
            !.last_validation_error = self.last_validation_error]

\* The rest of _run_generation once generate_script has ended as g: after
\* a result the Generate button of the thread's panel is hidden behind the
\* continue or install button, after an exception _reset_button enables it
\* again.  The panel may be gone by then.
AfterGeneration(t, g) ==
    IF g.pc = "done" /\ panel.id = threads[t].panel /\ panel.button # "none"
    THEN [panel EXCEPT !.button = IF g.outcome = "return" THEN "hidden" ELSE "enabled"]
    ELSE panel

\* Thread t has made the step that leaves its call as g: the frame is kept
\* and the two fields are written to its object.
Advance(t, g) ==
    /\ threads' = [threads EXCEPT ![t].frame = g]
    /\ instances' = [instances EXCEPT ![InstanceOf(t)] =
                        [last_generated_code |-> g.last_generated_code,
                         last_validation_error |-> g.last_validation_error]]
    /\ panel' = AfterGeneration(t, g)

InitGui ==
    /\ GeneratorIdle
    /\ ValidatorOff
    /\ AnalysersOff
    /\ GuiOff
    /\ ScriptManagerOff
    /\ NewExecutor
    /\ ConfigFresh
    /\ ReusedNew
    /\ VersionsFresh
    /\ PlainExecutor

\* App.show_generator: the widgets of the main area are destroyed and a new
\* panel is created, with its Generate button enabled.
ShowGenerator ==
    /\ panel.id < MaxPanels
    /\ panel' = [id |-> panel.id + 1, button |-> "enabled"]
    /\ UNCHANGED << threads, instances, genVars, valVars, anVars, smVars, exVars, cfgVars, seqVars, vmVars, rpVars >>

\* App._exit_generator, the command of the Cancel button: the panel is
\* destroyed; a running thread is left alone.
ExitGenerator ==
    /\ panel.button # "none"
    /\ panel' = [panel EXCEPT !.button = "none"]
    /\ UNCHANGED << threads, instances, genVars, valVars, anVars, smVars, exVars, cfgVars, seqVars, vmVars, rpVars >>

\* GeneratorPanel.generate, the command of the Generate button: with a
\* prompt and an API key it disables the button and starts a thread.
Generate ==
    /\ panel.button = "enabled"
    /\ Len(threads) < MaxThreads
    /\ \E up \in GuiPrompts :
          threads' = Append(threads, NewThread(panel.id, up))
    /\ panel' = [panel EXCEPT !.button = "disabled"]
    /\ UNCHANGED << instances, genVars, valVars, anVars, smVars, exVars, cfgVars, seqVars, vmVars, rpVars >>

\* _run_generation up to the first iteration of generate_script: it builds
\* a ScriptGenerator and calls generate_script with the prompt and the
\* on_retry_attempt callback.
RunGeneration(t) ==
    /\ threads[t].generator = 0
    /\ instances' = instances @@ (FreshAddress(t) :> NewInstance)
    /\ threads' = [threads EXCEPT
                      ![t].generator = FreshAddress(t),
                      ![t].frame = Call(@, @.user_prompt, <<>>, TRUE)]
    /\ UNCHANGED << panel, genVars, valVars, anVars, smVars, exVars, cfgVars, seqVars, vmVars, rpVars >>

ThreadSendRequest(t) ==
    /\ threads[t].generator # 0
    /\ threads[t].frame.pc = "drafting"
    /\ Advance(t, Draft(Bound(t)))
    /\ UNCHANGED << genVars, valVars, anVars, smVars, exVars, cfgVars, seqVars, vmVars, rpVars >>

ThreadApiReturn(t) ==
    /\ threads[t].generator # 0
    /\ threads[t].frame.pc = "awaiting"
    /\ \E r \in GuiResponses : Advance(t, OnResponse(Bound(t), r))
    /\ UNCHANGED << genVars, valVars, anVars, smVars, exVars, cfgVars, seqVars, vmVars, rpVars >>

ThreadApiRaise(t) ==
    /\ threads[t].generator # 0
    /\ threads[t].frame.pc = "awaiting"
    /\ \E f \in GuiFailures : Advance(t, OnApiFailure(Bound(t), f))
    /\ UNCHANGED << genVars, valVars, anVars, smVars, exVars, cfgVars, seqVars, vmVars, rpVars >>

NextGui ==
    \/ ShowGenerator
    \/ ExitGenerator
    \/ Generate
    \/ \E t \in 1..Len(threads) :
          \/ RunGeneration(t)
          \/ ThreadSendRequest(t)
          \/ ThreadApiReturn(t)
          \/ ThreadApiRaise(t)

SpecGui == InitGui /\ [][NextGui]_vars

\* ------------------------------------------------------------------------
\* ScriptManager._extract_metadata_ast
\* ------------------------------------------------------------------------

MaxElts == 3

\* Element kinds of a list display:
\*   "literal"      a constant, or a dict or list display of constants
\*   "method_call"  a call of a method of a literal, "x".upper()
\*   "attribute"    an attribute lookup on a literal, ().__class__
\*   "name"         a bare name, len
\*   "name_call"    a call of a bare name, open("f")
EltKinds == {"literal", "method_call", "attribute", "name", "name_call"}

\* With globals {"__builtins__": {}} and no locals every bare name raises
\* NameError; methods and attributes of literals are found.
Raises(elt) == elt \in {"name", "name_call"}

RunsCode(elt) == elt \in {"method_call", "attribute"}

\* The index of the first element whose evaluation raises, 0 if none.
FirstRaise(elts) ==
    IF \E i \in 1..Len(elts) : Raises(elts[i])
    THEN SetMin({i \in 1..Len(elts) : Raises(elts[i])})
    ELSE 0

\* eval(compile(ast.Expression(node), '<string>', 'eval'), {"__builtins__": {}}, {})
\* on a list display: the elements are evaluated from left to right until
\* one raises.  <<outcome, value, elements that ran code>>
EvalList(elts) ==
    LET stop == FirstRaise(elts)
        upto == IF stop = 0 THEN Len(elts) ELSE stop - 1
    IN  << IF stop = 0 THEN "value" ELSE "NameError",
           IF stop = 0 THEN elts ELSE <<>>,
           {i \in 1..upto : RunsCode(elts[i])} >>

\* The PARAMETERS branch: every ast.List value is compiled and evaluated;
\* a bare except turns any exception into [].
ParametersOf(script) ==
    IF script.kind = "List"
    THEN << Trace(TRUE, EvalList(script.elts)[3]), EvalList(script.elts)[2] >>
    ELSE << Trace(FALSE, {}), <<>> >>

Scripts_OnDisk ==
    {Script(p, "List", e) : p \in {"ok", "SyntaxError"}, e \in SeqsUpTo(EltKinds, MaxElts)}
    \cup {Script("ok", k, e) : k \in {"Tuple", "Call", "Name"},
                               e \in {<<>>, << "literal" >>}}
    \cup {Script("ok", "absent", <<>>)}

InitScriptManager ==
    /\ GeneratorIdle
    /\ ValidatorOff
    /\ AnalysersOff
    /\ GuiOff
    /\ NewExecutor
    /\ ConfigFresh
    /\ ReusedNew
    /\ VersionsFresh
    /\ PlainExecutor
    /\ sm_pc = "call"
    /\ sm_script \in Scripts_OnDisk
    /\ sm_trace = Trace(FALSE, {})
    /\ sm_result = Metadata(FALSE, <<>>)

\* _extract_metadata_ast(script_path, filename): None when the file does
\* not parse, the metadata dict otherwise.
ExtractMetadataAst ==
    /\ sm_pc = "call"
    /\ sm_pc' = "done"
    /\ IF sm_script.parse # "ok"
       THEN /\ sm_trace' = Trace(FALSE, {})
            /\ sm_result' = Metadata(FALSE, <<>>)
       ELSE /\ sm_trace' = ParametersOf(sm_script)[1]
            /\ sm_result' = Metadata(TRUE, ParametersOf(sm_script)[2])
    /\ UNCHANGED << sm_script, genVars, valVars, anVars, guiVars, exVars, cfgVars, seqVars, vmVars, rpVars >>

NextScriptManager == ExtractMetadataAst

SpecScriptManager == InitScriptManager /\ [][NextScriptManager]_vars

\* ------------------------------------------------------------------------
\* ScriptExecutor
\* ------------------------------------------------------------------------

MaxExecutions == 2

otherVars == << genVars, valVars, anVars, guiVars, smVars, cfgVars, seqVars, vmVars, rpVars >>

\* Exit codes of a script that ends on its own; a terminated process
\* reports the signal, -15.
ExitCodes == {0, 1}

\* A subprocess is running.
Live == \E p \in 1..Len(procs) : procs[p].state = "running"

\* Every subprocess started has exited on its own and its runner has called
\* finished_callback; at least one was started.
Settled ==
    /\ procs # <<>>
    /\ \A p \in 1..Len(procs) : procs[p].state = "exited"
    /\ \A r \in 1..Len(runners) : runners[r].pc = "done"

InitExecutor ==
    /\ GeneratorIdle
    /\ ValidatorOff
    /\ AnalysersOff
    /\ GuiOff
    /\ ScriptManagerOff
    /\ NewExecutor
    /\ ConfigFresh
    /\ ReusedNew
    /\ VersionsFresh
    /\ PlainExecutor

\* execute(): builds the command and starts a daemon thread on _run_process.
Execute ==
    /\ Len(runners) < MaxExecutions
    /\ runners' = Append(runners, [pc |-> "spawn", proc |-> 0])
    /\ UNCHANGED << current_process, procs, finished, probe, otherVars >>

\* _run_process: Popen starts the subprocess and current_process is set.
Spawn(r) ==
    /\ runners[r].pc = "spawn"
    /\ procs' = Append(procs, [state |-> "running", returncode |-> 0])
    /\ current_process' = Len(procs) + 1
    /\ runners' = [runners EXCEPT ![r] = [pc |-> "reading", proc |-> Len(procs) + 1]]
    /\ UNCHANGED << finished, probe, otherVars >>

\* _run_process: Popen raises (no interpreter, no such file); the except
\* branch reports the error and calls finished_callback(-1, None).
SpawnFails(r) ==
    /\ runners[r].pc = "spawn"
    /\ runners' = [runners EXCEPT ![r].pc = "done"]
    /\ finished' = Append(finished, << r, -1 >>)
    /\ UNCHANGED << current_process, procs, probe, otherVars >>

\* The script ends on its own.
ProcessExits(p) ==
    /\ procs[p].state = "running"
    /\ \E rc \in ExitCodes :
          procs' = [procs EXCEPT ![p] = [state |-> "exited", returncode |-> rc]]
    /\ UNCHANGED << current_process, runners, finished, probe, otherVars >>

\* _run_process after Popen: both streams are read to their end, which
\* comes when the subprocess is gone; wait() gives the return code and
\* finished_callback is called with it.  current_process is left as it is.
RunnerFinishes(r) ==
    /\ runners[r].pc = "reading"
    /\ procs[runners[r].proc].state # "running"
    /\ runners' = [runners EXCEPT ![r].pc = "done"]
    /\ finished' = Append(finished, << r, procs[runners[r].proc].returncode >>)
    /\ UNCHANGED << current_process, procs, probe, otherVars >>

\* stop(): with a current_process, terminate() (which does nothing to a
\* process that has exited), wait or kill, current_process = None, True;
\* without one, False.
Stop ==
    /\ probe' = Probe("stop", current_process # 0, Live, Settled)
    /\ IF current_process # 0
       THEN /\ procs' = [procs EXCEPT ![current_process] =
                            IF @.state = "running"
                            THEN [state |-> "terminated", returncode |-> -15]
                            ELSE @]
            /\ current_process' = 0
       ELSE UNCHANGED << procs, current_process >>
    /\ UNCHANGED << runners, finished, otherVars >>

\* is_running(): current_process is not None.
IsRunning ==
    /\ probe' = Probe("is_running", current_process # 0, Live, Settled)
    /\ UNCHANGED << current_process, procs, runners, finished, otherVars >>

NextExecutor ==
    \/ Execute
    \/ \E r \in 1..Len(runners) : Spawn(r) \/ SpawnFails(r) \/ RunnerFinishes(r)
    \/ \E p \in 1..Len(procs) : ProcessExits(p)
    \/ Stop
    \/ IsRunning

SpecExecutor == InitExecutor /\ [][NextExecutor]_vars

\* ------------------------------------------------------------------------
\* One generate_script call after another on the same ScriptGenerator
\* ------------------------------------------------------------------------

MaxSeqCalls == 2

SeqExistingScripts == {<<>>, << GoodScript >>}

InitSequential ==
    /\ GeneratorIdle
    /\ ValidatorOff
    /\ AnalysersOff
    /\ GuiOff
    /\ ScriptManagerOff
    /\ NewExecutor
    /\ ConfigFresh
    /\ ReusedNew
    /\ VersionsFresh
    /\ PlainExecutor

SeqRest == << genVars, valVars, anVars, guiVars, smVars, exVars, cfgVars, vmVars, rpVars >>

\* generate_script is called on the instance, new or used before; the two
\* fields are as the last call left them.
SeqStart ==
    /\ seq_gen.pc \in {"idle", "done"}
    /\ seq_calls < MaxSeqCalls
    /\ \E up \in GuiPrompts, es \in SeqExistingScripts :
          seq_gen' = Call(seq_gen, up, es, FALSE)
    /\ seq_stale' = Fields(seq_gen)
    /\ seq_calls' = seq_calls + 1
    /\ UNCHANGED SeqRest

SeqSendRequest ==
    /\ seq_gen.pc = "drafting"
    /\ seq_gen' = Draft(seq_gen)
    /\ UNCHANGED << seq_stale, seq_calls, SeqRest >>

SeqApiReturn ==
    /\ seq_gen.pc = "awaiting"
    /\ \E r \in GuiResponses : seq_gen' = OnResponse(seq_gen, r)
    /\ UNCHANGED << seq_stale, seq_calls, SeqRest >>

SeqApiRaise ==
    /\ seq_gen.pc = "awaiting"
    /\ \E f \in GuiFailures : seq_gen' = OnApiFailure(seq_gen, f)
    /\ UNCHANGED << seq_stale, seq_calls, SeqRest >>

NextSequential == SeqStart \/ SeqSendRequest \/ SeqApiReturn \/ SeqApiRaise

SpecSequential == InitSequential /\ [][NextSequential]_vars

\* ------------------------------------------------------------------------
\* core/script_executor.py: _run_process, its subprocess and the two pipes
\* ------------------------------------------------------------------------

\* Number of lines a subprocess writes at most.
MaxWrites == 3

\* Number of lines a pipe holds before a write to it blocks.
PipeCapacity == 2

\* A line on stdout, a line on stderr, and a line on stderr that
\* detect_missing_package matches.
LineKinds == {"out", "err", "ModuleNotFoundError"}

RECURSIVE Programs(_)
\* The sequences of at most n lines.
Programs(n) ==
    IF n = 0 THEN {<<>>}
    ELSE LET shorter == Programs(n - 1)
         IN  shorter \cup {Append(p, l) : p \in shorter, l \in LineKinds}

\* detect_missing_package on a line of stderr.
DetectMissingPackage(line) == line = "ModuleNotFoundError"

\* A call of finished_callback: its returncode and whether every line of
\* the subprocess had been passed to output_callback by then.
Finished(returncode, all_passed) ==
    [returncode |-> returncode, all_passed |-> all_passed]

\* Every line the subprocess writes has been passed to output_callback.
AllPassed ==
    rp_child.state # "running" /\ rp_child.todo = <<>> /\ rp_stdout = <<>> /\ rp_stderr = <<>>

InitRunProcess ==
    /\ GeneratorIdle
    /\ ValidatorOff
    /\ AnalysersOff
    /\ GuiOff
    /\ ScriptManagerOff
    /\ NewExecutor
    /\ ConfigFresh
    /\ ReusedNew
    /\ VersionsFresh
    /\ \E raising \in SUBSET {"output_callback", "finished_callback"}, install \in BOOLEAN :
          rp_callbacks = Callbacks(raising, install)
    /\ NotExecuted

RpRest == << genVars, valVars, anVars, guiVars, smVars, exVars, cfgVars, seqVars, vmVars >>

\* Where the thread is after calling the callback cb: the call returns,
\* or, for a callback that may raise, raises.
AfterCallback(cb, returned, raised) ==
    {returned} \cup (IF cb \in rp_callbacks.raising THEN {raised} ELSE {})

\* execute: the thread running _run_process is started on a command.
RpExecute ==
    /\ rp_pc = "idle"
    /\ rp_pc' = "Popen"
    /\ \E todo \in Programs(MaxWrites), returncode \in ExitCodes :
          rp_child' = Child("none", todo, returncode)
    /\ UNCHANGED << rp_callbacks, rp_stdout, rp_stderr, rp_passed, rp_missing, rp_finished, RpRest >>

\* subprocess.Popen returns: the subprocess runs.
Popen ==
    /\ rp_pc = "Popen"
    /\ rp_pc' = "read_stream"
    /\ rp_child' = [rp_child EXCEPT !.state = "running"]
    /\ UNCHANGED << rp_callbacks, rp_stdout, rp_stderr, rp_passed, rp_missing, rp_finished, RpRest >>

\* subprocess.Popen raises: the thread goes to the except branch.
PopenRaises ==
    /\ rp_pc = "Popen"
    /\ rp_pc' = "except"
    /\ rp_child' = [rp_child EXCEPT !.todo = <<>>]
    /\ UNCHANGED << rp_callbacks, rp_stdout, rp_stderr, rp_passed, rp_missing, rp_finished, RpRest >>

\* The subprocess writes its next line, when the pipe has room for it.
ChildWrites ==
    /\ rp_child.state = "running"
    /\ rp_child.todo # <<>>
    /\ LET line == Head(rp_child.todo)
       IN  IF line = "out"
           THEN /\ Len(rp_stdout) < PipeCapacity
                /\ rp_stdout' = Append(rp_stdout, line)
                /\ UNCHANGED rp_stderr
           ELSE /\ Len(rp_stderr) < PipeCapacity
                /\ rp_stderr' = Append(rp_stderr, line)
                /\ UNCHANGED rp_stdout
    /\ rp_child' = [rp_child EXCEPT !.todo = Tail(@)]
    /\ UNCHANGED << rp_callbacks, rp_pc, rp_passed, rp_missing, rp_finished, RpRest >>

\* The subprocess has written everything and exits: its ends of the pipes
\* are closed.
ChildExits ==
    /\ rp_child.state = "running"
    /\ rp_child.todo = <<>>
    /\ rp_child' = [rp_child EXCEPT !.state = "exited"]
    /\ UNCHANGED << rp_callbacks, rp_pc, rp_stdout, rp_stderr, rp_passed, rp_missing, rp_finished, RpRest >>

\* read_stream(process.stdout): readline returns a line, which is passed
\* to output_callback.
ReadStdoutLine ==
    /\ rp_pc = "read_stream"
    /\ rp_stdout # <<>>
    /\ rp_stdout' = Tail(rp_stdout)
    /\ rp_passed' = rp_passed + 1
    /\ rp_pc' \in AfterCallback("output_callback", "read_stream", "except")
    /\ UNCHANGED << rp_callbacks, rp_child, rp_stderr, rp_missing, rp_finished, RpRest >>

\* read_stream(process.stdout): readline returns "" at end of file, which
\* is when the pipe is empty and the subprocess has closed its end.
StdoutEof ==
    /\ rp_pc = "read_stream"
    /\ rp_stdout = <<>>
    /\ rp_child.state = "exited"
    /\ rp_pc' = "read_stderr"
    /\ UNCHANGED << rp_callbacks, rp_child, rp_stdout, rp_stderr, rp_passed, rp_missing, rp_finished, RpRest >>

\* read_stderr(process.stderr): a line is passed to output_callback and
\* appended to stderr_output.
ReadStderrLine ==
    /\ rp_pc = "read_stderr"
    /\ rp_stderr # <<>>
    /\ rp_stderr' = Tail(rp_stderr)
    /\ rp_passed' = rp_passed + 1
    /\ \E after \in AfterCallback("output_callback", "read_stderr", "except") :
          /\ rp_pc' = after
          /\ rp_missing' = IF after = "read_stderr"
                           THEN rp_missing \/ DetectMissingPackage(Head(rp_stderr))
                           ELSE rp_missing
    /\ UNCHANGED << rp_callbacks, rp_child, rp_stdout, rp_finished, RpRest >>

\* read_stderr(process.stderr) reaches end of file; process.wait() returns
\* at once, the subprocess having exited; a missing package is reported to
\* install_callback or in lines passed to output_callback.
StderrEof ==
    /\ rp_pc = "read_stderr"
    /\ rp_stderr = <<>>
    /\ rp_child.state = "exited"
    /\ IF rp_child.returncode # 0 /\ rp_missing /\ ~rp_callbacks.install
       THEN rp_pc' \in AfterCallback("output_callback", "finished_callback", "except")
       ELSE rp_pc' = "finished_callback"
    /\ UNCHANGED << rp_callbacks, rp_child, rp_stdout, rp_stderr, rp_passed, rp_missing, rp_finished, RpRest >>

\* self.finished_callback(process.returncode, output_dir), inside the try.
CallFinished ==
    /\ rp_pc = "finished_callback"
    /\ rp_finished' = Append(rp_finished, Finished(rp_child.returncode, AllPassed))
    /\ rp_pc' \in AfterCallback("finished_callback", "done", "except")
    /\ UNCHANGED << rp_callbacks, rp_child, rp_stdout, rp_stderr, rp_passed, rp_missing, RpRest >>

\* except Exception: output_callback(ERROR ...); when it raises, the
\* exception ends the thread.
ExceptOutput ==
    /\ rp_pc = "except"
    /\ rp_pc' \in AfterCallback("output_callback", "except_finished", "raised")
    /\ UNCHANGED << rp_callbacks, rp_child, rp_stdout, rp_stderr, rp_passed, rp_missing, rp_finished, RpRest >>

\* except Exception: finished_callback(-1, None).
ExceptFinished ==
    /\ rp_pc = "except_finished"
    /\ rp_finished' = Append(rp_finished, Finished(-1, AllPassed))
    /\ rp_pc' \in AfterCallback("finished_callback", "done", "raised")
    /\ UNCHANGED << rp_callbacks, rp_child, rp_stdout, rp_stderr, rp_passed, rp_missing, RpRest >>

NextRunProcess ==
    \/ RpExecute
    \/ Popen
    \/ PopenRaises
    \/ ChildWrites
    \/ ChildExits
    \/ ReadStdoutLine
    \/ StdoutEof
    \/ ReadStderrLine
    \/ StderrEof
    \/ CallFinished
    \/ ExceptOutput
    \/ ExceptFinished

SpecRunProcess == InitRunProcess /\ [][NextRunProcess]_vars

\* ------------------------------------------------------------------------
\* core/script_version_manager.py
\* ------------------------------------------------------------------------

MAX_VERSIONS == 10

\* The highest version number the model lets create_backup give out.
MaxIssued == 11

\* What the editor can write into the script.
ScriptContents == {"a", "b"}

\* shutil.copy2 of the script into the versions directory succeeds or raises.
CopyOutcomes == {"ok", "error"}

\* f"v{next_version}_{timestamp}.py": one name per version number.
BackupFilename(next_version) == << "v", next_version >>

\* A variant that counts the versions kept.
NextVersion_Count(metadata) == Cardinality(DOMAIN metadata) + 1

\* max(version_numbers) + 1, with [0] as the numbers of an empty metadata.
NextVersion(metadata) ==
    LET version_numbers == IF DOMAIN metadata # {} THEN DOMAIN metadata ELSE {0}
    IN  (CHOOSE n \in version_numbers : \A k \in version_numbers : k <= n) + 1

\* version_keys[MAX_VERSIONS:] of the keys sorted by number, highest first.
OldVersions(metadata) ==
    {old_version \in DOMAIN metadata :
        Cardinality({k \in DOMAIN metadata : k > old_version}) >= MAX_VERSIONS}

\* create_backup: << the disk afterwards, the version number returned >>.
CreateBackup(disk, copy) ==
    IF disk.script = <<>> THEN << disk, <<>> >>
    ELSE IF copy # "ok" THEN << disk, <<>> >>
    ELSE
      LET next_version == NextVersion(disk.metadata)
          backup_filename == BackupFilename(next_version)
          copied == [f \in DOMAIN disk.files \cup {backup_filename} |->
                        IF f = backup_filename THEN disk.script[1] ELSE disk.files[f]]
          added == [n \in DOMAIN disk.metadata \cup {next_version} |->
                        IF n = next_version THEN backup_filename ELSE disk.metadata[n]]
          old == OldVersions(added)
          unlinked == {added[n] : n \in old}
      IN  << Disk(disk.script,
                  [n \in DOMAIN added \ old |-> added[n]],
                  [f \in DOMAIN copied \ unlinked |-> copied[f]]),
             << next_version >> >>

\* A ScriptVersion.
ScriptVersion(version_number, script_path) ==
    [version_number |-> version_number, script_path |-> script_path]

\* get_versions: the versions of the metadata whose backup file exists.
GetVersions(disk) ==
    {ScriptVersion(n, disk.metadata[n]) :
        n \in {k \in DOMAIN disk.metadata : disk.metadata[k] \in DOMAIN disk.files}}

\* restore_version: << the disk afterwards, the number create_backup
\* returned, True or False >>.
RestoreVersion(disk, version, copy) ==
    LET b == CreateBackup(disk, copy)
    IN  IF version.script_path \in DOMAIN b[1].files
        THEN << [b[1] EXCEPT !.script = << b[1].files[version.script_path] >>], b[2], TRUE >>
        ELSE << b[1], b[2], FALSE >>

InitVersions ==
    /\ GeneratorIdle
    /\ ValidatorOff
    /\ AnalysersOff
    /\ GuiOff
    /\ ScriptManagerOff
    /\ NewExecutor
    /\ ConfigFresh
    /\ ReusedNew
    /\ VersionsFresh
    /\ PlainExecutor

VmRest == << genVars, valVars, anVars, guiVars, smVars, exVars, cfgVars, seqVars, rpVars >>

\* The numbers given out so far, with the one this call returned.
Issued(ret) == vm_issued \o ret

\* create_backup(script_path) called on its own.
CallCreateBackup ==
    /\ NextVersion(vm_disk.metadata) <= MaxIssued
    /\ \E copy \in CopyOutcomes :
          LET b == CreateBackup(vm_disk, copy)
          IN  /\ vm_disk' = b[1]
              /\ vm_issued' = Issued(b[2])
              /\ vm_last' = VmCall("create_backup", b[2] # <<>>, b[2], vm_disk.script, <<>>)
    /\ UNCHANGED VmRest

\* ScriptEditorDialog._save_changes: back the script up, then write the
\* new code.  The copy of the backup succeeds.
SaveChanges ==
    /\ NextVersion(vm_disk.metadata) <= MaxIssued
    /\ \E new_code \in ScriptContents :
          LET b == CreateBackup(vm_disk, "ok")
          IN  /\ vm_disk' = [b[1] EXCEPT !.script = << new_code >>]
              /\ vm_issued' = Issued(b[2])
              /\ vm_last' = VmCall("save_changes", TRUE, b[2], vm_disk.script, << new_code >>)
    /\ UNCHANGED VmRest

\* ScriptEditorDialog._revert_to_version on a version of the list:
\* restore_version(script_path, version).  The copy of the backup
\* succeeds.
RevertToVersion ==
    /\ NextVersion(vm_disk.metadata) <= MaxIssued
    /\ \E version \in GetVersions(vm_disk) :
          LET r == RestoreVersion(vm_disk, version, "ok")
          IN  /\ vm_disk' = r[1]
              /\ vm_issued' = Issued(r[2])
              /\ vm_last' = VmCall("restore_version", r[3], r[2], vm_disk.script,
                                   << vm_disk.files[version.script_path] >>)
    /\ UNCHANGED VmRest

NextVersions == CallCreateBackup \/ SaveChanges \/ RevertToVersion

SpecVersions == InitVersions /\ [][NextVersions]_vars

\* ------------------------------------------------------------------------
\* config/llm_config.py
\* ------------------------------------------------------------------------

MaxConfigCalls == 4

\* A configuration as the functions pass it around.  endpoint, model and
\* api_key travel with the name and are left out.
Llm(id, name, is_current) == [id |-> id, name |-> name, is_current |-> is_current]

Stored(llm) == [id |-> llm.id, name |-> llm.name]

DEFAULT_LLMS ==
    << [id |-> << "openai", "gpt4o" >>, name |-> "OpenAI GPT-4o"],
       [id |-> << "ollama", "local" >>, name |-> "Ollama (Local)"] >>

\* name.lower().replace(" ", "-").replace("/", "-") for the names of the
\* model.
BaseId(name) ==
    CASE name = "foo" -> << "foo" >>
      [] name = "Foo" -> << "foo" >>
      [] name = "foo 1" -> << "foo", "1" >>
      [] name = "foo/1" -> << "foo", "1" >>
      [] name = "" -> << "" >>

LlmNames == {"Foo", "foo/1", ""}

\* get_all_llms(): the list of the file with is_current set from
\* current_llm_id; the defaults, the first one current, when there is no
\* file or it cannot be read.
GetAllLlms(file) ==
    IF file.state = "ok"
    THEN [i \in 1..Len(file.llms) |->
            Llm(file.llms[i].id, file.llms[i].name, file.llms[i].id = file.current_llm_id)]
    ELSE [i \in 1..Len(DEFAULT_LLMS) |->
            Llm(DEFAULT_LLMS[i].id, DEFAULT_LLMS[i].name, i = 1)]

\* The positions of the configurations marked current.
Marked(llms) == {i \in 1..Len(llms) : llms[i].is_current}

\* get_current_llm(): the first configuration marked current, else the
\* first one, else None (<<>>).
GetCurrentLlm(file) ==
    LET llms == GetAllLlms(file)
    IN  IF Marked(llms) # {} THEN << llms[SetMin(Marked(llms))] >>
        ELSE IF llms # <<>> THEN << llms[1] >>
        ELSE <<>>

\* Truth value of an id: None and "" are false.
TruthyId(id) == id # <<>> /\ id # << "" >>

\* A variant without the fallback to the first configuration.
CurrentIdToSave_NoFallback(llms) ==
    IF Marked(llms) # {} THEN llms[SetMin(Marked(llms))].id ELSE <<>>

\* save_llms: the id of the first configuration marked current; the id of
\* the first configuration when that is None or "".
CurrentIdToSave(llms) ==
    LET current_id == IF Marked(llms) # {} THEN llms[SetMin(Marked(llms))].id ELSE <<>>
    IN  IF ~TruthyId(current_id) /\ llms # <<>> THEN llms[1].id ELSE current_id

\* What can happen to the write: "ok"; "denied" (mkdir or open raises
\* OSError, the file is as before); "torn" (json.dump raises IOError after
\* open has truncated the file).
DiskOutcomes == {"ok", "denied", "torn"}

\* save_llms(llms): <<the file afterwards, the value returned>>.
SaveLlms(file, llms, disk) ==
    CASE disk = "ok" ->
            << ConfigFile("ok", [i \in 1..Len(llms) |-> Stored(llms[i])],
                          CurrentIdToSave(llms)), TRUE >>
      [] disk = "denied" -> << file, FALSE >>
      [] disk = "torn" -> << ConfigFile("corrupt", <<>>, <<>>), FALSE >>

Ids(llms) == {llms[i].id : i \in 1..Len(llms)}

\* f"{base_id}-{counter}", and base_id itself for counter 0.
WithCounter(base_id, counter) ==
    IF counter = 0 THEN base_id ELSE Append(base_id, ToString(counter))

\* A variant that takes the base id as it is.
NewId_BaseOnly(base_id, llms) == base_id

\* The while loop of add_llm: the base id, or the base id with the first
\* counter from 1 that gives an id not in the list.
NewId(base_id, llms) ==
    WithCounter(base_id,
                SetMin({k \in 0..Len(llms) : WithCounter(base_id, k) \notin Ids(llms)}))

AddLlm(file, name, disk) ==
    LET llms == GetAllLlms(file)
    IN  SaveLlms(file, Append(llms, Llm(NewId(BaseId(name), llms), name, FALSE)), disk)

\* update_llm: the first configuration with the id gets the new values; the
\* id stays.
UpdateLlm(file, llm_id, name, disk) ==
    LET llms == GetAllLlms(file)
        hits == {i \in 1..Len(llms) : llms[i].id = llm_id}
    IN  IF hits = {} THEN << file, FALSE >>
        ELSE SaveLlms(file, [llms EXCEPT ![SetMin(hits)].name = name], disk)

\* A variant without the test on the length of the list.
DeleteLlm_NoGuard(file, llm_id, disk) ==
    LET llms == GetAllLlms(file)
        kept == SelectSeq(llms, LAMBDA l : l.id # llm_id)
        was_current == \E i \in 1..Len(llms) : llms[i].id = llm_id /\ llms[i].is_current
    IN  SaveLlms(file,
                 IF was_current /\ kept # <<>>
                 THEN [kept EXCEPT ![1].is_current = TRUE] ELSE kept,
                 disk)

\* delete_llm: refused for a list of one; else every configuration with
\* the id is dropped and, if the first of them was current, the first one
\* left is marked current.
DeleteLlm(file, llm_id, disk) ==
    LET llms == GetAllLlms(file)
        kept == SelectSeq(llms, LAMBDA l : l.id # llm_id)
        hits == {i \in 1..Len(llms) : llms[i].id = llm_id}
        was_current == hits # {} /\ llms[SetMin(hits)].is_current
    IN  IF Len(llms) <= 1 THEN << file, FALSE >>
        ELSE SaveLlms(file,
                      IF was_current /\ kept # <<>>
                      THEN [kept EXCEPT ![1].is_current = TRUE] ELSE kept,
                      disk)

\* set_current_llm: every configuration is marked by whether it has the id.
SetCurrentLlm(file, llm_id, disk) ==
    LET llms == GetAllLlms(file)
    IN  SaveLlms(file, [i \in 1..Len(llms) |->
                          [llms[i] EXCEPT !.is_current = (llms[i].id = llm_id)]], disk)

\* The ids a caller passes: those on the list and one that is not.
IdArgs == Ids(GetAllLlms(cfg_file)) \cup {<< "unknown" >>}

InitConfig ==
    /\ GeneratorIdle
    /\ ValidatorOff
    /\ AnalysersOff
    /\ GuiOff
    /\ ScriptManagerOff
    /\ NewExecutor
    /\ ConfigFresh
    /\ ReusedNew
    /\ VersionsFresh
    /\ PlainExecutor

ConfigStep(op, id, outcome) ==
    /\ cfg_calls < MaxConfigCalls
    /\ cfg_calls' = cfg_calls + 1
    /\ cfg_file' = outcome[1]
    /\ cfg_last' = ConfigCall(op, id, outcome[2])
    /\ UNCHANGED << genVars, valVars, anVars, guiVars, smVars, exVars, seqVars, vmVars, rpVars >>

CallAddLlm ==
    \E name \in LlmNames, disk \in DiskOutcomes :
          ConfigStep("add_llm", NewId(BaseId(name), GetAllLlms(cfg_file)),
                     AddLlm(cfg_file, name, disk))

CallUpdateLlm ==
    \E id \in IdArgs, name \in LlmNames, disk \in DiskOutcomes :
        ConfigStep("update_llm", id, UpdateLlm(cfg_file, id, name, disk))

CallDeleteLlm ==
    \E id \in IdArgs, disk \in DiskOutcomes :
        ConfigStep("delete_llm", id, DeleteLlm(cfg_file, id, disk))

CallSetCurrentLlm ==
    \E id \in IdArgs, disk \in DiskOutcomes :
        ConfigStep("set_current_llm", id, SetCurrentLlm(cfg_file, id, disk))

NextConfig == CallAddLlm \/ CallUpdateLlm \/ CallDeleteLlm \/ CallSetCurrentLlm

SpecConfig == InitConfig /\ [][NextConfig]_vars

\* ------------------------------------------------------------------------
\* Properties of generate_script (Spec)
\* ------------------------------------------------------------------------

Prompts(g) == [i \in 1..Len(g.requests) |-> g.requests[i].prompt]

\* The call is over and every request was answered by a response whose
\* candidate the validator found invalid.
EveryResponseInvalid ==
    /\ gen.pc = "done"
    /\ Len(gen.log) = Len(gen.requests)
    /\ \A i \in 1..Len(gen.log) : ~gen.log[i].is_valid

\* C1: when every response fails validation, the call sends exactly
\* MAX_RETRIES requests and then raises ValidationError with the error
\* message of the last attempt.
C1_RetryBound ==
    EveryResponseInvalid =>
        /\ Len(gen.requests) = MAX_RETRIES
        /\ gen.outcome = "ValidationError"
        /\ gen.result.error = gen.log[MAX_RETRIES].error_msg

\* Three invalid candidates in a row, the last two with different errors.
C1_Witness ==
    /\ EveryResponseInvalid
    /\ gen.outcome = "ValidationError"
    /\ Len(gen.log) = MAX_RETRIES
    /\ gen.log[2].error_msg # gen.log[3].error_msg

\* C2 as stated: when the collaborator call fails, generate_script raises
\* APIError at once, with no further request.
C2_CollaboratorFailureRaisesAPIError ==
    gen.api_failure # <<>> =>
        /\ gen.pc = "done"
        /\ gen.outcome = "APIError"
        /\ Len(gen.requests) = Len(gen.log) + 1

\* The text a response can be parsed into: a JSON code field, the first
\* fenced block or the whole response.
CodesOf(r) ==
    {r.text} \cup SeqRange(r.block)
    \cup {v.code : v \in SeqRange(r.direct) \cup SeqRange(r.fence) \cup SeqRange(r.brace)}

\* C3: a valid candidate ends the call at once: no request follows it, and
\* the returned dict holds what was parsed from that same attempt.
C3_ValidIsTerminal ==
    \A i \in 1..Len(gen.log) :
        gen.log[i].is_valid =>
            /\ i = Len(gen.log)
            /\ Len(gen.requests) = i
            /\ gen.pc = "done"
            /\ gen.outcome = "return"
            /\ gen.result = Result(gen.log[i].code, gen.log[i].name,
                                   gen.log[i].description, gen.log[i].packages, NoError)
            /\ gen.result.code \in CodesOf(gen.log[i].response)

\* The third attempt validated, after two other candidates.
C3_Witness ==
    /\ gen.pc = "done"
    /\ gen.outcome = "return"
    /\ Len(gen.log) = 3
    /\ gen.log[3].is_valid
    /\ gen.log[2].code # gen.log[3].code
    /\ gen.result.code = gen.log[3].code

\* C4 as stated: the call ends by returning, by APIError or by
\* ValidationError, and once a response has arrived only by returning or
\* by ValidationError.
C4_ThreeEndings ==
    gen.pc = "done" =>
        /\ gen.outcome \in {"return", "APIError", "ValidationError"}
        /\ gen.api_failure = <<>> => gen.outcome \in {"return", "ValidationError"}

\* C5: the attempt number is 1 at the first request, one more at each
\* following request, and never above MAX_RETRIES.
C5_AttemptBounded ==
    /\ gen.pc # "idle" => gen.attempt \in 1..MAX_RETRIES
    /\ Len(gen.requests) <= MAX_RETRIES
    /\ \A i \in 1..Len(gen.requests) : gen.requests[i].attempt = i

\* The third request has been sent.
C5_Witness ==
    /\ Len(gen.requests) = MAX_RETRIES
    /\ gen.attempt = MAX_RETRIES

\* C6: the prompt of attempt k > 1 is the retry template with the call's
\* user prompt and the code and error message of attempt k - 1.
C6_RetryPromptFeedback ==
    \A k \in 2..Len(gen.requests) :
        /\ Len(gen.log) >= k - 1
        /\ gen.requests[k].prompt =
              Prompt("RETRY_TEMPLATE", gen.user_prompt, <<>>,
                     << gen.log[k - 1].code >>, << gen.log[k - 1].error_msg >>)

\* Two retries with different codes and different errors, in a second call.
C6_Witness ==
    /\ calls = 2
    /\ Len(gen.requests) = 3
    /\ gen.log[1].code # gen.log[2].code
    /\ gen.log[1].error_msg # gen.log[2].error_msg

HasJson(r) == r.direct # <<>> \/ r.fence # <<>> \/ r.brace # <<>>

JsonOf(r) ==
    IF r.direct # <<>> THEN r.direct[1]
    ELSE IF r.fence # <<>> THEN r.fence[1] ELSE r.brace[1]

\* The attempt took code, name, description and packages from the JSON object.
IsJsonParse(e) ==
    /\ HasJson(e.response)
    /\ JsonOf(e.response).ty = "object"
    /\ e.code = Get(JsonOf(e.response), "code", EmptyStr)
    /\ e.name = Get(JsonOf(e.response), "name", DEFAULT_NAME)
    /\ e.description = Get(JsonOf(e.response), "description", DEFAULT_DESCRIPTION)
    /\ e.packages = Get(JsonOf(e.response), "packages", <<>>)

\* The attempt took the first fenced block, or the whole response, as code
\* and derived the rest from it.
IsPlainParse(e) ==
    /\ e.code = IF e.response.block # <<>> THEN e.response.block[1] ELSE e.response.text
    /\ e.name = ExtractMetadata(e.code)[1]
    /\ e.description = ExtractMetadata(e.code)[2]
    /\ e.packages = DetectExternalPackages(e.code)

\* C8 as stated: in both modes a response that parses as JSON is taken from
\* the JSON object, and only one that does not is taken as plain code.
C8_JsonFirstInBothModes ==
    \A i \in 1..Len(gen.log) :
        IF HasJson(gen.log[i].response)
        THEN IsJsonParse(gen.log[i]) ELSE IsPlainParse(gen.log[i])

\* C8 amended: this holds in create mode; in edit mode every response is
\* taken as plain code, also one that parses as JSON.
C8_JsonFirstInCreateMode ==
    \A i \in 1..Len(gen.log) :
        IF gen.mode = "create" /\ HasJson(gen.log[i].response)
        THEN IsJsonParse(gen.log[i]) ELSE IsPlainParse(gen.log[i])

\* A create-mode call parsed one response as JSON and another as plain code.
C8_Witness ==
    /\ gen.mode = "create"
    /\ \E i, j \in 1..Len(gen.log) :
          /\ gen.log[i].branch = "json" /\ HasJson(gen.log[i].response)
          /\ gen.log[j].branch = "plain" /\ ~HasJson(gen.log[j].response)

\* C9: a response parsed through the JSON branch whose code validates is
\* returned with the packages field of the JSON object as it is.
C9_JsonPackagesUnchanged ==
    (gen.pc = "done" /\ gen.outcome = "return"
        /\ gen.log[Len(gen.log)].branch = "json") =>
        LET data == JsonOf(gen.log[Len(gen.log)].response)
        IN  gen.result.packages = IF "packages" \in data.keys THEN data.packages ELSE <<>>

\* A JSON response was accepted whose packages field differs from the
\* packages its code imports.
C9_Witness ==
    /\ gen.pc = "done"
    /\ gen.outcome = "return"
    /\ gen.log[Len(gen.log)].branch = "json"
    /\ "packages" \in JsonOf(gen.log[Len(gen.log)].response).keys
    /\ gen.result.packages = << "opencv-python", "numpy" >>
    /\ DetectExternalPackages(gen.result.code) = << "cv2", "requests" >>

\* ------------------------------------------------------------------------
\* Properties of the validator (SpecValidate)
\* ------------------------------------------------------------------------

\* The required names a candidate binds nowhere, by a plain assignment or a
\* def, read off the candidate itself.
BoundNames(c) == c.top_vars \cup c.inner_vars \cup c.top_funcs \cup c.inner_funcs

MissingVariables(c) == {n \in required_vars : n \notin BoundNames(c)}

MissingFunctions(c) == {n \in required_functions : n \notin BoundNames(c)}

\* A finished run on a text that passes the anti-pattern check, parses and
\* misses at least one required name.
MissesSomething ==
    /\ val_pc = "done"
    /\ IsStr(val_code)
    /\ val_code.hits = {}
    /\ val_code.parse = "ok"
    /\ MissingVariables(val_code) \cup MissingFunctions(val_code) # {}

\* C10 as stated: a candidate that passes the anti-pattern check and misses
\* some of the required names is invalid, and the error message names every
\* missing name, variables and functions together.
C10_NamesEveryMissingSymbol ==
    MissesSomething =>
        /\ val_result[1] = "return"
        /\ ~val_result[2]
        /\ val_result[3].names = MissingVariables(val_code) \cup MissingFunctions(val_code)

\* C10 amended: such a candidate is invalid; when a variable is missing the
\* message names every missing variable and no function, and only when no
\* variable is missing it names every missing function.
C10_NamesMissingVariablesFirst ==
    MissesSomething =>
        /\ val_result[1] = "return"
        /\ ~val_result[2]
        /\ val_result[3].names =
              IF MissingVariables(val_code) # {}
              THEN MissingVariables(val_code)
              ELSE MissingFunctions(val_code)

\* A candidate missing two variables and a function has been validated.
C10_Witness ==
    /\ MissesSomething
    /\ Cardinality(MissingVariables(val_code)) = 2
    /\ MissingFunctions(val_code) = {"main"}
    /\ val_result[3].kind = "Missing required variable(s)"

\* The directories the validator is said to forbid.
ForbiddenDirs == {"static", "output", "temp", "tmp", "data", "outputs"}

\* The candidate holds a forbidden directory name and a slash, in quotes.
HasQuotedForbiddenDir ==
    \E f \in val_text : \E d \in ForbiddenDirs : QuotedDir(f, d)

IsComplete(c) ==
    /\ IsStr(c)
    /\ c.parse = "ok"
    /\ c.compile_ok
    /\ c.top_vars = required_vars
    /\ c.top_funcs = required_functions

C13_ValidatorNeverRaises ==
    /\ anti_pc = "done" => anti_result[1] = "return"
    /\ val_pc = "done" => val_result[1] = "return"

\* C14: a result returned by either function has an empty error message
\* exactly when it is valid, and the complete candidate without forbidden
\* pattern is valid with an empty message.
C14_EmptyErrorIffValid ==
    /\ (anti_pc = "done" /\ anti_result[1] = "return") =>
          (anti_result[3] = NoError <=> anti_result[2])
    /\ (val_pc = "done" /\ val_result[1] = "return") =>
          (val_result[3] = NoError <=> val_result[2])
    /\ (val_pc = "done" /\ IsComplete(val_code) /\ val_text = {}) =>
          val_result = << "return", TRUE, NoError >>

\* The complete candidate was validated, and so was one that parses, binds
\* every name and does not compile.
C14_Witness ==
    /\ val_pc = "done"
    /\ anti_pc = "done"
    /\ IsStr(val_code)
    /\ val_code.parse = "ok"
    /\ val_code.top_vars = required_vars
    /\ val_code.top_funcs = required_functions
    /\ val_text = {}
    /\ val_result[2] = val_code.compile_ok

\* C18: a candidate that passes the anti-pattern check and parses, and
\* lacks a top-level binding of a required variable or a top-level def of a
\* required function, is invalid, wherever else the name is bound.
C18_OnlyTopLevelBindingsCount ==
    (/\ val_pc = "done"
     /\ IsStr(val_code)
     /\ val_code.hits = {}
     /\ val_code.parse = "ok"
     /\ (required_vars \ val_code.top_vars) \cup
            (required_functions \ val_code.top_funcs) # {}) =>
        ~val_result[2]

\* ------------------------------------------------------------------------
\* Properties of the analysers (SpecAnalyse)
\* ------------------------------------------------------------------------

\* The text parses and assigns a str literal to var somewhere.
HasStrLiteral(var) ==
    /\ IsStr(an_code)
    /\ an_code.parse = "ok"
    /\ \E i \in 1..Len(an_assigns) :
          an_assigns[i].target = var /\ an_assigns[i].kind = "str"

\* C15: _extract_metadata returns a pair for every input; the name is
\* "Generated Script" when the text has no str literal assigned to NAME or
\* does not parse, the description "No description" likewise, a literal
\* assigned in the text otherwise; a second run returns the same pair.
C15_MetadataTotalIdempotent ==
    \A i \in 1..Len(meta_results) :
        /\ meta_results[i][1] =
              IF HasStrLiteral("NAME")
              THEN StrLiteralOf(an_assigns, "NAME")[1] ELSE DEFAULT_NAME
        /\ meta_results[i][2] =
              IF HasStrLiteral("DESCRIPTION")
              THEN StrLiteralOf(an_assigns, "DESCRIPTION")[1] ELSE DEFAULT_DESCRIPTION
        /\ meta_results[i] = meta_results[1]

\* Two runs on a text that assigns a call to NAME and a literal to
\* DESCRIPTION, and two runs on a text that does not parse.
C15_Witness ==
    /\ Len(meta_results) = 2
    /\ \/ /\ an_code.parse = "ok"
          /\ an_assigns = << Assign("NAME", "call", ""),
                             Assign("DESCRIPTION", "str", "Resizes images") >>
          /\ meta_results[2] = << "Generated Script", "Resizes images" >>
       \/ /\ an_code.parse = "SyntaxError"
          /\ Len(an_assigns) = 2
          /\ meta_results[2] = << "Generated Script", "No description" >>

\* Position of a package name in the order of sorted().
PackageRank(p) == CHOOSE i \in 1..Len(PackageOrder) : PackageOrder[i] = p

\* The top-level names of the modules the import statements of the text
\* name that are in neither set.
ExternalImported ==
    IF ~IsStr(an_code) \/ an_code.parse # "ok" THEN {}
    ELSE {Head(an_imports[i].path) : i \in {j \in 1..Len(an_imports) : an_imports[j].path # <<>>}}
            \ (STANDARD_LIB \cup LIKELY_INSTALLED)

\* C16: detect_external_packages returns a strictly increasing list (so
\* sorted and duplicate-free) whose elements are exactly the top-level
\* names of the imported packages in neither set; the list is therefore
\* the same for every order of the import statements; it is empty when the
\* text does not parse, and a second run returns the same list.
C16_PackagesSortedUnique ==
    \A i \in 1..Len(pkg_results) :
        LET r == pkg_results[i]
        IN  /\ \A k \in 1..Len(r) - 1 : PackageRank(r[k]) < PackageRank(r[k + 1])
            /\ SeqRange(r) = ExternalImported
            /\ (an_code.parse # "ok" => r = <<>>)
            /\ r = pkg_results[1]

\* Two runs on a text importing requests, cv2.aruco and cv2, in that order.
C16_Witness ==
    /\ an_code.parse = "ok"
    /\ an_imports = << Import(<< "requests" >>), Import(<< "cv2", "aruco" >>), Import(<< "cv2" >>) >>
    /\ pkg_results = << << "cv2", "requests" >>, << "cv2", "requests" >> >>

\* ------------------------------------------------------------------------
\* Properties of concurrent generations (SpecGui)
\* ------------------------------------------------------------------------

\* C17: the generations started from the GUI work on pairwise different
\* ScriptGenerator objects, and under every interleaving each retry prompt
\* of a generation embeds the code and the validation error of the previous
\* attempt of that same generation.
C17_GenerationsShareNothing ==
    /\ \A t, u \in 1..Len(threads) :
          (t # u /\ threads[t].generator # 0) =>
              threads[t].generator # threads[u].generator
    /\ \A t \in 1..Len(threads) :
          LET g == threads[t].frame
          IN  \A k \in 2..Len(g.requests) :
                  g.requests[k].prompt =
                      Prompt("RETRY_TEMPLATE", g.user_prompt, <<>>,
                             << g.log[k - 1].code >>, << g.log[k - 1].error_msg >>)

\* Two generations ran at the same time: each has sent a retry prompt after
\* the attempts of both had failed, on different candidates.
C17_Witness ==
    /\ Len(threads) = 2
    /\ Len(threads[1].frame.requests) = 2
    /\ Len(threads[2].frame.requests) = 2
    /\ threads[1].frame.pc = "awaiting"
    /\ threads[2].frame.pc = "awaiting"
    /\ threads[1].frame.log[1].code = IncompleteScript
    /\ threads[2].frame.log[1].code = ForbiddenScript
    /\ threads[1].frame.requests[2].prompt.previous_code = << IncompleteScript >>
    /\ threads[2].frame.requests[2].prompt.previous_code = << ForbiddenScript >>

\* ------------------------------------------------------------------------
\* Properties of ScriptManager (SpecScriptManager)
\* ------------------------------------------------------------------------

\* C19: the value of PARAMETERS is handed to eval only if it is a list
\* display whose elements are all literals, and no call or attribute lookup
\* written in it is ever executed.
C19_OnlyLiteralListsEvaluated ==
    sm_pc = "done" =>
        /\ sm_trace.evaluated =>
              /\ sm_script.kind = "List"
              /\ \A i \in 1..Len(sm_script.elts) : sm_script.elts[i] = "literal"
        /\ sm_trace.ran = {}

\* ------------------------------------------------------------------------
\* Properties of ScriptExecutor (SpecExecutor)
\* ------------------------------------------------------------------------

\* C20: is_running() returns true exactly when a subprocess started by
\* execute() has not yet exited, and once every subprocess has exited on
\* its own and finished_callback has been called, is_running() returns
\* false and stop() returns false.
C20_IsRunningTracksSubprocess ==
    /\ probe.op = "is_running" => (probe.result <=> probe.live)
    /\ (probe.op \in {"is_running", "stop"} /\ probe.settled) => ~probe.result

\* ------------------------------------------------------------------------
\* Properties of the LLM configuration (SpecConfig)
\* ------------------------------------------------------------------------

\* C21: after any sequence of add_llm, update_llm, delete_llm and
\* set_current_llm calls from the default configuration the stored list, as
\* get_all_llms gives it, holds at least one configuration.
C21_NeverEmpty == Len(GetAllLlms(cfg_file)) >= 1

\* delete_llm was refused on a list of one, and delete_llm removed a
\* configuration from a longer list.
C21_Witness ==
    /\ cfg_last.op = "delete_llm"
    /\ cfg_file.state = "ok"
    /\ Len(cfg_file.llms) = 1
    /\ cfg_last.id \in Ids(cfg_file.llms)
    /\ ~cfg_last.ok

\* C22: no two stored configurations have the same id.
C22_IdsUnique ==
    LET llms == GetAllLlms(cfg_file)
    IN  \A i, j \in 1..Len(llms) : llms[i].id = llms[j].id => i = j

\* Two configurations stored under the name "Foo", and one named "foo/1"
\* added when "foo-1" was taken.
C22_Witness ==
    /\ cfg_file.state = "ok"
    /\ Cardinality({i \in 1..Len(cfg_file.llms) : cfg_file.llms[i].name = "Foo"}) = 2
    /\ \E i \in 1..Len(cfg_file.llms) :
          cfg_file.llms[i].name = "foo/1" /\ cfg_file.llms[i].id = << "foo", "1", "1" >>

\* C23: exactly one stored configuration is reported as current by
\* get_all_llms, and get_current_llm returns it.
C23_ExactlyOneCurrent ==
    LET llms == GetAllLlms(cfg_file)
    IN  /\ Cardinality(Marked(llms)) = 1
        /\ \A i \in Marked(llms) : GetCurrentLlm(cfg_file) = << llms[i] >>

\* set_current_llm was called with an id that is not on the list.
C23_Witness ==
    /\ cfg_last = ConfigCall("set_current_llm", << "unknown" >>, TRUE)
    /\ Len(cfg_file.llms) = 3
    /\ cfg_file.current_llm_id = cfg_file.llms[1].id
    /\ cfg_calls >= 3

\* ------------------------------------------------------------------------
\* Properties of reused generators (SpecSequential)
\* ------------------------------------------------------------------------

\* C24: in every call on a reused instance the prompt of attempt 1 has no
\* previous code and no error message, and the prompt of an attempt k > 1
\* has the code and the error stored by attempt k - 1 of the same call,
\* whatever an earlier call left in the two fields.
C24_NoLeakBetweenCalls ==
    \A k \in 1..Len(seq_gen.requests) :
        LET p == seq_gen.requests[k].prompt
        IN  IF k = 1
            THEN p.previous_code = <<>> /\ p.error_message = <<>>
            ELSE /\ p.previous_code = << seq_gen.log[k - 1].code >>
                 /\ p.error_message = << seq_gen.log[k - 1].error_msg >>

\* A second call has sent a retry prompt after the first call left another
\* code and another error behind.
C24_Witness ==
    /\ seq_calls = 2
    /\ Len(seq_gen.requests) = 2
    /\ seq_stale.last_generated_code = ForbiddenScript
    /\ seq_stale.last_validation_error.kind = "Forbidden pattern detected"
    /\ seq_gen.requests[2].prompt.previous_code = << IncompleteScript >>
    /\ seq_gen.requests[2].prompt.error_message[1].kind = "Missing required variable(s)"

\* ------------------------------------------------------------------------
\* Properties of the version manager (SpecVersions)
\* ------------------------------------------------------------------------

\* The numbers of the versions get_versions lists.
Retained == {v.version_number : v \in GetVersions(vm_disk)}

\* The numbers create_backup has returned so far.
IssuedSoFar == {vm_issued[i] : i \in 1..Len(vm_issued)}

C26_RestoreListedVersion ==
    (vm_last.op = "restore_version" /\ vm_last.backup # <<>>) =>
        /\ vm_last.ok
        /\ vm_disk.script = vm_last.want
        /\ vm_last.backup[1] \in Retained
        /\ << vm_disk.files[BackupFilename(vm_last.backup[1])] >> = vm_last.pre

\* ------------------------------------------------------------------------
\* Properties of _run_process (SpecRunProcess)
\* ------------------------------------------------------------------------

\* The thread of _run_process has ended, by returning or by an exception.
ThreadEnded == rp_pc \in {"done", "raised"}

\* C27: finished_callback is called exactly once for an execute() call,
\* and only after every line of the subprocess has been passed to
\* output_callback, also when Popen or a callback raises.
C27_FinishedExactlyOnce ==
    /\ Len(rp_finished) <= 1
    /\ ThreadEnded => Len(rp_finished) = 1
    /\ \A i \in 1..Len(rp_finished) : rp_finished[i].all_passed

\* The thread waits for a line of stdout that the subprocess will not
\* write, or the subprocess waits for room in a pipe.
ThreadWaits ==
    \/ rp_pc = "read_stream" /\ rp_stdout = <<>> /\ rp_child.state = "running"
    \/ rp_pc = "read_stderr" /\ rp_stderr = <<>> /\ rp_child.state = "running"

ChildWaits ==
    /\ rp_child.state = "running"
    /\ rp_child.todo # <<>>
    /\ Len(IF Head(rp_child.todo) = "out" THEN rp_stdout ELSE rp_stderr) >= PipeCapacity

\* C28: with callbacks that return, _run_process never waits for stdout
\* while the subprocess waits for room in a pipe, so it goes on until
\* finished_callback.
C28_NeverBlockedForever ==
    rp_callbacks.raising = {} => ~(ThreadWaits /\ ChildWaits)

====
